---- MODULE Spec2Model ----
(***************************************************************************)
(* Model of the unified-diff parser of claude-canvas                       *)
(* (canvas/src/scenarios/diff/view.ts): parseGitDiff, parseFile and        *)
(* parseHunk.  A line of text is a sequence of one-character strings, the  *)
(* input is a sequence of lines (diffOutput.split("\n")), and every        *)
(* iteration of one of the parser's while loops is one step.               *)
(*                                                                         *)
(* The second part models what DiffCanvas makes of the parsed files:       *)
(* computeWordDiffs with computeHunkWordDiffs, computeLineDiff, tokenize   *)
(* and computeLCS, and getDiffStats.  The third part models the canvas     *)
(* itself: the visible lines, the keys of useInput and the IPC callbacks.  *)
(***************************************************************************)
EXTENDS Integers, Sequences, FiniteSets, TLC

VARIABLES
    lines,   \* diffOutput.split("\n"), each line by its name in LinePool
    pc,      \* the loop the parser is in
    i,       \* parseGitDiff: let i
    files,   \* parseGitDiff: const files
    pf,      \* the locals of the running parseFile call
    ph,      \* the locals of the running parseHunk call
    wordDiffEnabled,  \* DiffCanvas: config.wordDiffEnabled
    wd,      \* the locals of the running computeWordDiffs call
    memo,    \* DiffCanvas: the memoised files and stats
    liveConfig,      \* DiffCanvas: useState(initialConfig)
    viewportHeight,  \* DiffCanvas: termHeight - headerHeight - footerHeight
    scrollOffset,    \* DiffCanvas: useState(0)
    cursorLine,      \* DiffCanvas: useState(0)
    collapsedFiles,  \* DiffCanvas: useState(new Set())
    collapsedHunks,  \* DiffCanvas: useState(new Map())
    key,     \* useInput: the input the handler last ran on
    sent,    \* the results passed to ipc.sendSelected
    exited   \* useApp: exit() was called

viewVars == <<wordDiffEnabled, wd, memo>>

canvasVars ==
    <<liveConfig, viewportHeight, scrollOffset, cursorLine, collapsedFiles,
      collapsedHunks, key, sent, exited>>

vars ==
    <<lines, pc, i, files, pf, ph, wordDiffEnabled, wd, memo, liveConfig,
      viewportHeight, scrollOffset, cursorLine, collapsedFiles, collapsedHunks,
      key, sent, exited>>

----------------------------------------------------------------------------
(* Strings *)

\* String.prototype.startsWith
startsWith(s, p) == Len(s) >= Len(p) /\ SubSeq(s, 1, Len(p)) = p

\* String.prototype.slice(k), k counted from 0
slice(s, k) == SubSeq(s, k + 1, Len(s))

\* a regular expression's "." : any character but a line terminator (of the
\* four JavaScript knows, the two a line of the model could hold)
Dot(c) == c \notin {"\n", "\r"}

AllDot(s) == \A k \in 1..Len(s) : Dot(s[k])

\* a regular expression's "\d"
Digits == <<"0", "1", "2", "3", "4", "5", "6", "7", "8", "9">>

IsDigit(c) == \E d \in 1..Len(Digits) : Digits[d] = c

DigitValue(c) == (CHOOSE d \in 1..Len(Digits) : Digits[d] = c) - 1

\* parseInt(s, 10) of a string matched by \d+
RECURSIVE parseInt(_)
parseInt(s) ==
    IF s = <<>> THEN 0
    ELSE 10 * parseInt(SubSeq(s, 1, Len(s) - 1)) + DigitValue(s[Len(s)])

\* the end (exclusive) of the longest run of digits of s that starts at p
DigitRunEnd(s, p) ==
    CHOOSE q \in p..(Len(s) + 1) :
        /\ \A k \in p..(q - 1) : IsDigit(s[k])
        /\ (q = Len(s) + 1 \/ ~IsDigit(s[q]))

----------------------------------------------------------------------------
(* The literals of the parser *)

DiffGit      == <<"d","i","f","f"," ","-","-","g","i","t">>
DiffGitA     == DiffGit \o <<" ","a","/">>
SpaceB       == <<" ","b","/">>
AtAt         == <<"@","@">>
AtAtMinus    == <<"@","@"," ","-">>
SpacePlus    == <<" ","+">>
SpaceAtAt    == <<" ","@","@">>
NewFileMode  == <<"n","e","w"," ","f","i","l","e"," ","m","o","d","e">>
DeletedFileMode ==
    <<"d","e","l","e","t","e","d"," ","f","i","l","e"," ","m","o","d","e">>
RenameFrom   == <<"r","e","n","a","m","e"," ","f","r","o","m">>
CopyFrom     == <<"c","o","p","y"," ","f","r","o","m">>
BinaryFiles  == <<"B","i","n","a","r","y"," ","f","i","l","e","s">>

\* JavaScript's undefined, as the value of a ChangeType variable never assigned
Undefined == "undefined"

\* an optional number (oldLineNumber?: number): absent, or present with a value
Absent == <<>>
Present(n) == <<n>>

----------------------------------------------------------------------------
(* The two regular expressions *)

NoMatch == [ok |-> FALSE]

\* the lengths the lazy group (.+?) of the file pattern may take
PathSplits(line) ==
    { k \in 1..Len(line) :
        /\ Len(line) >= Len(DiffGitA) + k + Len(SpaceB) + 1
        /\ SubSeq(line, Len(DiffGitA) + k + 1, Len(DiffGitA) + k + Len(SpaceB)) = SpaceB
        /\ AllDot(SubSeq(line, Len(DiffGitA) + 1, Len(DiffGitA) + k))
        /\ AllDot(slice(line, Len(DiffGitA) + k + Len(SpaceB))) }

\* a pattern that takes the rest of any "diff --git" line for both paths
pathMatchAnyDiffGit(line) ==
    IF ~startsWith(line, DiffGit) THEN NoMatch
    ELSE [ok      |-> TRUE,
          oldPath |-> slice(line, Len(DiffGit)),
          newPath |-> slice(line, Len(DiffGit))]

\* gitLine.match(/^diff --git a\/(.+?) b\/(.+)$/)
pathMatch(line) ==
    IF ~startsWith(line, DiffGitA) \/ PathSplits(line) = {} THEN NoMatch
    ELSE LET k == CHOOSE x \in PathSplits(line) : \A y \in PathSplits(line) : x <= y
         IN  [ok      |-> TRUE,
              oldPath |-> SubSeq(line, Len(DiffGitA) + 1, Len(DiffGitA) + k),
              newPath |-> slice(line, Len(DiffGitA) + k + Len(SpaceB))]

\* \d+ at position p, then the optional group (?:,(\d+))?
\* [ok, num, count (the digits of the group, <<>> when it did not take part), next]
NumberAndCount(line, p) ==
    IF p > Len(line) \/ ~IsDigit(line[p]) THEN NoMatch
    ELSE LET q == DigitRunEnd(line, p)
             hasCount == /\ q + 1 <= Len(line)
                         /\ line[q] = ","
                         /\ IsDigit(line[q + 1])
             r == IF hasCount THEN DigitRunEnd(line, q + 1) ELSE q
         IN  [ok    |-> TRUE,
              num   |-> SubSeq(line, p, q - 1),
              count |-> IF hasCount THEN SubSeq(line, q + 1, r - 1) ELSE <<>>,
              next  |-> r]

\* headerLine.match(/^@@ -(\d+)(?:,(\d+))? \+(\d+)(?:,(\d+))? @@(.*)$/)
\* m1..m5 are the groups match[1]..match[5]; <<>> stands for a group that is
\* undefined or empty (both are falsy where the parser tests them)
headerMatch(line) ==
    IF ~startsWith(line, AtAtMinus) THEN NoMatch
    ELSE LET old == NumberAndCount(line, Len(AtAtMinus) + 1) IN
         IF ~old.ok \/ ~startsWith(slice(line, old.next - 1), SpacePlus) THEN NoMatch
         ELSE LET new == NumberAndCount(line, old.next + Len(SpacePlus)) IN
              IF \/ ~new.ok
                 \/ ~startsWith(slice(line, new.next - 1), SpaceAtAt)
                 \/ ~AllDot(slice(line, new.next + 2))
              THEN NoMatch
              ELSE [ok |-> TRUE,
                    m1 |-> old.num, m2 |-> old.count,
                    m3 |-> new.num, m4 |-> new.count,
                    m5 |-> slice(line, new.next + 2)]

----------------------------------------------------------------------------
(* The input *)

\* the longest free part of an input, in lines: of any lines that shape
\* sections and hunks (MaxTail), and of the lines of one hunk body (MaxBody)
MaxTail == 3
MaxBody == 4

LFile        == DiffGitA \o <<"f">> \o SpaceB \o <<"g">>       \* diff --git a/f b/g
LFile2       == DiffGitA \o <<"h">> \o SpaceB \o <<"h">>       \* diff --git a/h b/h
LBadFile     == DiffGit \o <<" ","x">>                         \* diff --git x
LNewFile     == NewFileMode
LDeletedFile == DeletedFileMode
LBinary      == BinaryFiles
LHeader      == AtAtMinus \o <<"3",",","2">> \o SpacePlus \o <<"5">> \o SpaceAtAt
                                                               \* @@ -3,2 +5 @@
LHeader2     == AtAtMinus \o <<"1">> \o SpacePlus \o <<"1","0",",","0">>
                   \o SpaceAtAt \o <<" ","f">>                 \* @@ -1 +10,0 @@ f
LBadHeader   == AtAt \o <<" ","x">>                            \* @@ x
LAdd         == <<"+","a">>
LDelete      == <<"-","b">>
LNormal      == <<" ","c">>
LNoNewline   == <<"\\"," ","N","o">>
LOther       == <<"x">>
LEmpty       == <<>>

\* the lines an input is made of, by name
LinePool ==
    [file |-> LFile, file2 |-> LFile2, badFile |-> LBadFile,
     newFile |-> LNewFile, deletedFile |-> LDeletedFile, binary |-> LBinary,
     header |-> LHeader, header2 |-> LHeader2, badHeader |-> LBadHeader,
     add |-> LAdd, delete |-> LDelete, normal |-> LNormal,
     noNewline |-> LNoNewline, other |-> LOther, empty |-> LEmpty]

\* the lines that shape sections and hunks, and the lines of a hunk body
StructureLines ==
    { "file", "file2", "badFile", "newFile", "deletedFile", "binary",
      "header", "header2", "badHeader", "add", "empty" }
BodyLines ==
    { "add", "delete", "normal", "noNewline", "other", "empty", "header2" }

\* the start of a file section that an input may have
Heads == { <<>>, <<"file">>, <<"file", "header">> }

\* an input is any text of up to MaxTail structure lines, alone or after the
\* start of a file section, or a hunk with a body of up to MaxBody lines
IsInput(in) ==
    \/ \E head \in Heads, n \in 0..MaxTail :
         \E tail \in [1..n -> StructureLines] : in = head \o tail
    \/ \E n \in 0..MaxBody :
         \E body \in [1..n -> BodyLines] : in = <<"file", "header">> \o body

\* the parameter expandedByDefault = true of parseGitDiff
expandedByDefault == TRUE

\* lines[k], k counted from 0; the variable lines holds each line's name
Line(k) == LinePool[lines[k + 1]]

NoFile ==
    [startIndex |-> 0, i |-> 0, oldPath |-> <<>>, newPath |-> <<>>,
     status |-> "modified", hunks |-> <<>>]

NoHunk ==
    [startIndex |-> 0, i |-> 0, headerLine |-> <<>>,
     oldStart |-> 0, oldLines |-> 0, newStart |-> 0, newLines |-> 0,
     context |-> <<>>, changes |-> <<>>,
     currentOldLine |-> 0, currentNewLine |-> 0]

\* no computeWordDiffs call is running
NoWordDiffs ==
    [f |-> 0, h |-> 0, i |-> 0, result |-> <<>>, hunks |-> <<>>, files |-> <<>>]

\* DiffCanvas before its first render
NoMemo ==
    [files |-> <<>>,
     stats |-> [additions |-> 0, deletions |-> 0, files |-> 0]]

\* no DiffCanvas is mounted
NoCanvas ==
    /\ liveConfig = [diff |-> "none", expandedByDefault |-> TRUE]
    /\ viewportHeight = 1
    /\ scrollOffset = 0
    /\ cursorLine = 0
    /\ collapsedFiles = {}
    /\ collapsedHunks = <<>>
    /\ key = "none"
    /\ sent = <<>>
    /\ exited = FALSE

\* String.prototype.split("\n") returns at least one line
Init ==
    /\ IsInput(lines)
    /\ Len(lines) >= 1
    /\ pc = "parseGitDiff"
    /\ i = 0
    /\ files = <<>>
    /\ pf = NoFile
    /\ ph = NoHunk
    /\ wordDiffEnabled = TRUE
    /\ wd = NoWordDiffs
    /\ memo = NoMemo
    /\ NoCanvas

----------------------------------------------------------------------------
(* parseGitDiff *)

\* while (i < lines.length), a line that starts with "diff --git" and matches:
\* parseFile is entered
parseGitDiffFile ==
    /\ pc = "parseGitDiff"
    /\ i < Len(lines)
    /\ startsWith(Line(i), DiffGit)
    /\ LET pathMatched == pathMatch(Line(i))
       IN  /\ pathMatched.ok
           /\ pf' = [startIndex |-> i, i |-> i + 1,
                     oldPath |-> pathMatched.oldPath,
                     newPath |-> pathMatched.newPath,
                     status |-> "modified", hunks |-> <<>>]
    /\ pc' = "metadata"
    /\ UNCHANGED <<lines, i, files, ph, viewVars, canvasVars>>

\* a line that starts with "diff --git" and does not match: parseFile returns
\* null and the line is passed
parseGitDiffNoFile ==
    /\ pc = "parseGitDiff"
    /\ i < Len(lines)
    /\ startsWith(Line(i), DiffGit)
    /\ ~pathMatch(Line(i)).ok
    /\ i' = i + 1
    /\ UNCHANGED <<lines, pc, files, pf, ph, viewVars, canvasVars>>

\* any other line is passed
parseGitDiffSkip ==
    /\ pc = "parseGitDiff"
    /\ i < Len(lines)
    /\ ~startsWith(Line(i), DiffGit)
    /\ i' = i + 1
    /\ UNCHANGED <<lines, pc, files, pf, ph, viewVars, canvasVars>>

\* return files
parseGitDiffReturn ==
    /\ pc = "parseGitDiff"
    /\ i >= Len(lines)
    /\ pc' = "done"
    /\ UNCHANGED <<lines, i, files, pf, ph, viewVars, canvasVars>>

----------------------------------------------------------------------------
(* parseFile *)

\* the condition of both loops of parseFile, were it to test for a line that
\* matches the file pattern
InFileUntilMatch == pf.i < Len(lines) /\ ~pathMatch(Line(pf.i)).ok

\* the condition of both loops of parseFile
InFile == pf.i < Len(lines) /\ ~startsWith(Line(pf.i), DiffGit)

\* the status after a metadata line, were a status once set kept
metadataStatusFirstWins(line, status) ==
    IF status # "modified" THEN status
    ELSE IF startsWith(line, NewFileMode) THEN "added"
    ELSE IF startsWith(line, DeletedFileMode) THEN "deleted"
    ELSE IF startsWith(line, RenameFrom) THEN "renamed"
    ELSE IF startsWith(line, CopyFrom) THEN "copied"
    ELSE status

\* the status after a metadata line
metadataStatus(line, status) ==
    IF startsWith(line, NewFileMode) THEN "added"
    ELSE IF startsWith(line, DeletedFileMode) THEN "deleted"
    ELSE IF startsWith(line, RenameFrom) THEN "renamed"
    ELSE IF startsWith(line, CopyFrom) THEN "copied"
    ELSE status

\* one iteration of the metadata loop on a line that stays in the loop
parseFileMetadata ==
    /\ pc = "metadata"
    /\ InFile
    /\ ~startsWith(Line(pf.i), AtAt)
    /\ ~startsWith(Line(pf.i), BinaryFiles)
    /\ pf' = [pf EXCEPT !.status = metadataStatus(Line(pf.i), @), !.i = @ + 1]
    /\ UNCHANGED <<lines, pc, i, files, ph, viewVars, canvasVars>>

\* "Binary files": the line is passed and the loop is left
parseFileBinary ==
    /\ pc = "metadata"
    /\ InFile
    /\ ~startsWith(Line(pf.i), AtAt)
    /\ startsWith(Line(pf.i), BinaryFiles)
    /\ pf' = [pf EXCEPT !.i = @ + 1]
    /\ pc' = "hunks"
    /\ UNCHANGED <<lines, i, files, ph, viewVars, canvasVars>>

\* the metadata loop ends: at "@@" (break), at a file boundary or at the end
parseFileMetadataEnd ==
    /\ pc = "metadata"
    /\ IF InFile THEN startsWith(Line(pf.i), AtAt) ELSE TRUE
    /\ pc' = "hunks"
    /\ UNCHANGED <<lines, i, files, pf, ph, viewVars, canvasVars>>

\* match[2] ? parseInt(match[2], 10) : 1, and the same for match[4]: a count
\* group is a non-empty digit string when present, and every non-empty string
\* is truthy, "0" included
countOrOneZeroIsOne(group) ==
    IF group # <<>> /\ parseInt(group) # 0 THEN parseInt(group) ELSE 1

countOrOne(group) ==
    IF group # <<>> THEN parseInt(group) ELSE 1

\* the hunk loop at a line that starts with "@@" and matches: parseHunk is
\* entered
parseFileHunk ==
    /\ pc = "hunks"
    /\ InFile
    /\ startsWith(Line(pf.i), AtAt)
    /\ LET match == headerMatch(Line(pf.i))
           oldStart == parseInt(match.m1)
           newStart == parseInt(match.m3)
       IN  /\ match.ok
           /\ ph' =
                 [startIndex |-> pf.i, i |-> pf.i + 1,
                  headerLine |-> Line(pf.i),
                  oldStart |-> oldStart,
                  oldLines |-> countOrOne(match.m2),
                  newStart |-> newStart,
                  newLines |-> countOrOne(match.m4),
                  context |-> match.m5,
                  changes |-> <<>>,
                  currentOldLine |-> oldStart,
                  currentNewLine |-> newStart]
    /\ pc' = "parseHunk"
    /\ UNCHANGED <<lines, i, files, pf, viewVars, canvasVars>>

\* the hunk loop at a line that starts with "@@" and does not match: parseHunk
\* returns null and the line is passed
parseFileNoHunk ==
    /\ pc = "hunks"
    /\ InFile
    /\ startsWith(Line(pf.i), AtAt)
    /\ ~headerMatch(Line(pf.i)).ok
    /\ pf' = [pf EXCEPT !.i = @ + 1]
    /\ UNCHANGED <<lines, pc, i, files, ph, viewVars, canvasVars>>

\* the hunk loop passes any other line
parseFileSkip ==
    /\ pc = "hunks"
    /\ InFile
    /\ ~startsWith(Line(pf.i), AtAt)
    /\ pf' = [pf EXCEPT !.i = @ + 1]
    /\ UNCHANGED <<lines, pc, i, files, ph, viewVars, canvasVars>>

\* return { file, nextIndex }; parseGitDiff pushes the file and takes nextIndex
parseFileReturn ==
    /\ pc = "hunks"
    /\ ~InFile
    /\ files' = Append(files, [oldPath |-> pf.oldPath, newPath |-> pf.newPath,
                               hunks |-> pf.hunks, status |-> pf.status,
                               isExpanded |-> expandedByDefault])
    /\ i' = pf.i
    /\ pc' = "parseGitDiff"
    /\ pf' = NoFile
    /\ UNCHANGED <<lines, ph, viewVars, canvasVars>>

----------------------------------------------------------------------------
(* parseHunk *)

\* the breaks at the top of the loop without the test for the next file
hunkStopsNoFileTest(k) ==
    \/ startsWith(Line(k), AtAt)
    \/ (Line(k) = <<>> /\ k = Len(lines) - 1)

\* the breaks at the top of the loop, the first taken only at a header that
\* matches the grammar
hunkStopsAtHeaderOnly(k) ==
    \/ (startsWith(Line(k), AtAt) /\ headerMatch(Line(k)).ok)
    \/ startsWith(Line(k), DiffGit)
    \/ (Line(k) = <<>> /\ k = Len(lines) - 1)

\* the breaks at the top of the loop, the last taken at every empty line
hunkStopsAtAnyEmpty(k) ==
    \/ startsWith(Line(k), AtAt)
    \/ startsWith(Line(k), DiffGit)
    \/ Line(k) = <<>>

\* the two breaks at the top of the loop: the next hunk or file, and the
\* empty line that ends the input
hunkStops(k) ==
    \/ startsWith(Line(k), AtAt)
    \/ startsWith(Line(k), DiffGit)
    \/ (Line(k) = <<>> /\ k = Len(lines) - 1)

\* the locals of one iteration before the switch: let type, oldLineNumber,
\* newLineNumber are unassigned; skip is the "continue" of case "\\"
unassigned(currentOldLine, currentNewLine) ==
    [skip |-> FALSE, type |-> Undefined,
     oldLineNumber |-> Absent, newLineNumber |-> Absent,
     currentOldLine |-> currentOldLine, currentNewLine |-> currentNewLine]

\* case "+" that also takes an old line number
caseAddWithOldNumber(currentOldLine, currentNewLine) ==
    [unassigned(currentOldLine, currentNewLine) EXCEPT
        !.type = "add",
        !.oldLineNumber = Present(currentOldLine),
        !.newLineNumber = Present(currentNewLine),
        !.currentNewLine = currentNewLine + 1]

\* case "+"
caseAdd(currentOldLine, currentNewLine) ==
    [unassigned(currentOldLine, currentNewLine) EXCEPT
        !.type = "add",
        !.newLineNumber = Present(currentNewLine),
        !.currentNewLine = currentNewLine + 1]

\* case "-" as a copy of case " " would leave it: the new counter moves too
caseDeleteBothCounters(currentOldLine, currentNewLine) ==
    [unassigned(currentOldLine, currentNewLine) EXCEPT
        !.type = "delete",
        !.oldLineNumber = Present(currentOldLine),
        !.currentOldLine = currentOldLine + 1,
        !.currentNewLine = currentNewLine + 1]

\* case "-"
caseDelete(currentOldLine, currentNewLine) ==
    [unassigned(currentOldLine, currentNewLine) EXCEPT
        !.type = "delete",
        !.oldLineNumber = Present(currentOldLine),
        !.currentOldLine = currentOldLine + 1]

\* case " ", and the empty line of the default case
caseNormal(currentOldLine, currentNewLine) ==
    [unassigned(currentOldLine, currentNewLine) EXCEPT
        !.type = "normal",
        !.oldLineNumber = Present(currentOldLine),
        !.currentOldLine = currentOldLine + 1,
        !.newLineNumber = Present(currentNewLine),
        !.currentNewLine = currentNewLine + 1]

\* switch (prefix).  The break of the default case leaves the switch, not the
\* loop: type and both numbers are still unassigned after it, and the
\* iteration goes on to changes.push.
switchPrefix(line, currentOldLine, currentNewLine) ==
    LET prefix == IF line = <<>> THEN Undefined ELSE line[1]
    IN  CASE prefix = "+" -> caseAdd(currentOldLine, currentNewLine)
          [] prefix = "-" -> caseDelete(currentOldLine, currentNewLine)
          [] prefix = " " -> caseNormal(currentOldLine, currentNewLine)
          [] prefix = "\\" ->
               [unassigned(currentOldLine, currentNewLine) EXCEPT !.skip = TRUE]
          [] OTHER ->
               IF line = <<>> THEN caseNormal(currentOldLine, currentNewLine)
               ELSE unassigned(currentOldLine, currentNewLine)

\* const content = line.slice(1)
contentWithPrefix(line) == line

content(line) == slice(line, 1)

\* one iteration of the loop that neither breaks at its top nor continues:
\* changes.push({ type, content, oldLineNumber, newLineNumber })
parseHunkChange ==
    /\ pc = "parseHunk"
    /\ ph.i < Len(lines)
    /\ ~hunkStops(ph.i)
    /\ LET line == Line(ph.i)
           s == switchPrefix(line, ph.currentOldLine, ph.currentNewLine)
       IN  /\ ~s.skip
           /\ ph' = [ph EXCEPT
                       !.changes = Append(@, [type |-> s.type,
                                              content |-> content(line),
                                              oldLineNumber |-> s.oldLineNumber,
                                              newLineNumber |-> s.newLineNumber]),
                       !.currentOldLine = s.currentOldLine,
                       !.currentNewLine = s.currentNewLine,
                       !.i = @ + 1]
    /\ UNCHANGED <<lines, pc, i, files, pf, viewVars, canvasVars>>

\* case "\\": i++; continue
parseHunkNoNewline ==
    /\ pc = "parseHunk"
    /\ ph.i < Len(lines)
    /\ ~hunkStops(ph.i)
    /\ switchPrefix(Line(ph.i), ph.currentOldLine, ph.currentNewLine).skip
    /\ ph' = [ph EXCEPT !.i = @ + 1]
    /\ UNCHANGED <<lines, pc, i, files, pf, viewVars, canvasVars>>

\* return { hunk: {...}, nextIndex: startIndex }
hunkResultAtHeader(h) ==
    [hunk |-> [header |-> h.headerLine,
               oldStart |-> h.oldStart, oldLines |-> h.oldLines,
               newStart |-> h.newStart, newLines |-> h.newLines,
               changes |-> h.changes,
               isExpanded |-> expandedByDefault],
     nextIndex |-> h.startIndex]

\* return { hunk: {...}, nextIndex: i + 1 }
hunkResultPastStop(h) ==
    [hunk |-> [header |-> h.headerLine,
               oldStart |-> h.oldStart, oldLines |-> h.oldLines,
               newStart |-> h.newStart, newLines |-> h.newLines,
               changes |-> h.changes,
               isExpanded |-> expandedByDefault],
     nextIndex |-> h.i + 1]

\* return { hunk: {...}, nextIndex: i }
hunkResult(h) ==
    [hunk |-> [header |-> h.headerLine,
               oldStart |-> h.oldStart, oldLines |-> h.oldLines,
               newStart |-> h.newStart, newLines |-> h.newLines,
               changes |-> h.changes,
               isExpanded |-> expandedByDefault],
     nextIndex |-> h.i]

\* the loop ends and parseHunk returns; parseFile pushes the hunk and takes
\* nextIndex
parseHunkReturn ==
    /\ pc = "parseHunk"
    /\ IF ph.i < Len(lines) THEN hunkStops(ph.i) ELSE TRUE
    /\ pf' = [pf EXCEPT
                !.hunks = Append(@, hunkResult(ph).hunk),
                !.i = hunkResult(ph).nextIndex]
    /\ pc' = "hunks"
    /\ ph' = NoHunk
    /\ UNCHANGED <<lines, i, files, viewVars, canvasVars>>

----------------------------------------------------------------------------

Next ==
    \/ parseGitDiffFile
    \/ parseGitDiffNoFile
    \/ parseGitDiffSkip
    \/ parseGitDiffReturn
    \/ parseFileMetadata
    \/ parseFileBinary
    \/ parseFileMetadataEnd
    \/ parseFileHunk
    \/ parseFileNoHunk
    \/ parseFileSkip
    \/ parseFileReturn
    \/ parseHunkChange
    \/ parseHunkNoNewline
    \/ parseHunkReturn

Spec == Init /\ [][Next]_vars

----------------------------------------------------------------------------
(* tokenize, computeLCS, computeLineDiff *)

Letters ==
    {"a", "b", "c", "d", "e", "f", "g", "h", "i", "j", "k", "l", "m",
     "n", "o", "p", "q", "r", "s", "t", "u", "v", "w", "x", "y", "z",
     "A", "B", "C", "D", "E", "F", "G", "H", "I", "J", "K", "L", "M",
     "N", "O", "P", "Q", "R", "S", "T", "U", "V", "W", "X", "Y", "Z"}

\* /\w/.test(char)
isWordChar(char) == char \in Letters \/ IsDigit(char) \/ char = "_"

\* the test before a character is appended, taken at every character after
\* the first
tokenEndsAtEveryChar(wordChar, inWord, current) == current # <<>>

\* isWordChar !== inWord && current: the running token is pushed when the
\* class changes and the token is not empty
tokenEnds(wordChar, inWord, current) == wordChar # inWord /\ current # <<>>

\* for (const char of line) from the k-th character on, then the push of the
\* token left in current
RECURSIVE tokenizeFrom(_, _, _, _, _)
tokenizeFrom(line, k, tokens, current, inWord) ==
    IF k > Len(line)
    THEN IF current # <<>> THEN Append(tokens, current) ELSE tokens
    ELSE LET char == line[k]
             wordChar == isWordChar(char)
             ends == tokenEnds(wordChar, inWord, current)
         IN  tokenizeFrom(line, k + 1,
                          IF ends THEN Append(tokens, current) ELSE tokens,
                          (IF ends THEN <<>> ELSE current) \o <<char>>,
                          wordChar)

tokenize(line) == tokenizeFrom(line, 1, <<>>, <<>>, FALSE)

\* Math.max of two numbers
mathMax(x, y) == IF x >= y THEN x ELSE y

\* the inner loop over j of the fill of dp: row is dp[i][0..j-1], prev is
\* dp[i-1]
RECURSIVE dpRow(_, _, _, _, _, _)
dpRow(a, b, prev, ii, j, row) ==
    IF j > Len(b) THEN row
    ELSE dpRow(a, b, prev, ii, j + 1,
               Append(row, IF a[ii] = b[j] THEN prev[j] + 1
                           ELSE mathMax(prev[j + 1], row[j])))

\* the outer loop over i: table is dp[0..i-1], dp[i][j] being table[i+1][j+1]
RECURSIVE dpRows(_, _, _, _)
dpRows(a, b, ii, table) ==
    IF ii > Len(a) THEN table
    ELSE dpRows(a, b, ii + 1,
                Append(table, dpRow(a, b, table[ii], ii, 1, <<0>>)))

\* dp = Array(m + 1) of Array(n + 1).fill(0), then the two loops
dp(a, b) == dpRows(a, b, 1, << [j \in 1..(Len(b) + 1) |-> 0] >>)

\* the backtrack that steps to i - 1 without reading dp
backtrackUpAlways(table, ii, j) == TRUE

\* dp[i - 1][j] > dp[i][j - 1]
backtrackUp(table, ii, j) == table[ii][j + 1] > table[ii + 1][j]

\* while (i > 0 && j > 0): the backtrack from (i, j)
RECURSIVE backtrack(_, _, _, _, _, _)
backtrack(a, b, table, ii, j, lcs) ==
    IF ~(ii > 0 /\ j > 0) THEN lcs
    ELSE IF a[ii] = b[j]
         THEN backtrack(a, b, table, ii - 1, j - 1, <<a[ii]>> \o lcs)
         ELSE IF backtrackUp(table, ii, j)
              THEN backtrack(a, b, table, ii - 1, j, lcs)
              ELSE backtrack(a, b, table, ii, j - 1, lcs)

computeLCS(a, b) == backtrack(a, b, dp(a, b), Len(a), Len(b), <<>>)

\* while (idx < words.length && words[idx] !== target) idx++: the index the
\* loop ends at
RECURSIVE skipTo(_, _, _)
skipTo(words, idx, target) ==
    IF idx < Len(words) /\ words[idx + 1] # target
    THEN skipTo(words, idx + 1, target)
    ELSE idx

\* the word changes pushed for words[from .. to-1] whatever kind is asked for
pushedForEither(words, from, to, type, forType) ==
    [k \in 1..(to - from) |-> [type |-> type, value |-> words[from + k]]]

\* the word changes pushed for words[from .. to-1] when the line is of the
\* kind asked for, none otherwise
pushed(words, from, to, type, forType) ==
    IF forType = type
    THEN [k \in 1..(to - from) |-> [type |-> type, value |-> words[from + k]]]
    ELSE <<>>

\* while (oldIdx < oldWords.length || newIdx < newWords.length)
RECURSIVE lineDiffLoop(_, _, _, _, _, _, _, _)
lineDiffLoop(oldWords, newWords, lcs, forType, oldIdx, newIdx, lcsIdx, result) ==
    IF ~(oldIdx < Len(oldWords) \/ newIdx < Len(newWords)) THEN result
    ELSE IF lcsIdx < Len(lcs)
         THEN LET oldStop == skipTo(oldWords, oldIdx, lcs[lcsIdx + 1])
                  newStop == skipTo(newWords, newIdx, lcs[lcsIdx + 1])
              IN  lineDiffLoop(oldWords, newWords, lcs, forType,
                               oldStop + 1, newStop + 1, lcsIdx + 1,
                               result
                                 \o pushed(oldWords, oldIdx, oldStop, "delete", forType)
                                 \o pushed(newWords, newIdx, newStop, "add", forType)
                                 \o << [type |-> "normal", value |-> lcs[lcsIdx + 1]] >>)
         ELSE lineDiffLoop(oldWords, newWords, lcs, forType,
                           Len(oldWords), Len(newWords), lcsIdx,
                           result
                             \o pushed(oldWords, oldIdx, Len(oldWords), "delete", forType)
                             \o pushed(newWords, newIdx, Len(newWords), "add", forType))

computeLineDiff(oldLine, newLine, forType) ==
    LET oldWords == tokenize(oldLine)
        newWords == tokenize(newLine)
    IN  lineDiffLoop(oldWords, newWords, computeLCS(oldWords, newWords),
                     forType, 0, 0, 0, <<>>)

----------------------------------------------------------------------------
(* getDiffStats *)

\* the body of the innermost loop with its second test left out
countChangeElseDeletion(stats, change) ==
    IF change.type = "add"
    THEN [stats EXCEPT !.additions = @ + 1]
    ELSE [stats EXCEPT !.deletions = @ + 1]

\* if (change.type === "add") additions++;
\* if (change.type === "delete") deletions++;
countChange(stats, change) ==
    [stats EXCEPT
       !.additions = IF change.type = "add" THEN @ + 1 ELSE @,
       !.deletions = IF change.type = "delete" THEN @ + 1 ELSE @]

\* for (const change of hunk.changes)
RECURSIVE countChanges(_, _, _)
countChanges(stats, changes, k) ==
    IF k > Len(changes) THEN stats
    ELSE countChanges(countChange(stats, changes[k]), changes, k + 1)

\* for (const hunk of file.hunks)
RECURSIVE countHunks(_, _, _)
countHunks(stats, hunks, k) ==
    IF k > Len(hunks) THEN stats
    ELSE countHunks(countChanges(stats, hunks[k].changes, 1), hunks, k + 1)

\* for (const file of files)
RECURSIVE countFiles(_, _, _)
countFiles(stats, fs, k) ==
    IF k > Len(fs) THEN stats
    ELSE countFiles(countHunks(stats, fs[k].hunks, 1), fs, k + 1)

\* return { additions, deletions, files: files.length }
getDiffStats(fs) ==
    LET counted == countFiles([additions |-> 0, deletions |-> 0], fs, 1)
    IN  [additions |-> counted.additions,
         deletions |-> counted.deletions,
         files     |-> Len(fs)]

----------------------------------------------------------------------------
(* computeHunkWordDiffs *)

\* while (i < changes.length && changes[i].type === type) i++: the index the
\* loop ends at
RECURSIVE runEnd(_, _, _)
runEnd(changes, idx, type) ==
    IF idx < Len(changes) /\ changes[idx + 1].type = type
    THEN runEnd(changes, idx + 1, type)
    ELSE idx

\* the test of the block without its two caps
eligibleNoCap(deletes, adds) == Len(deletes) > 0 /\ Len(adds) > 0

\* deletes.length > 0 && adds.length > 0 && deletes.length <= 5 &&
\* adds.length <= 5
eligible(deletes, adds) ==
    /\ Len(deletes) > 0
    /\ Len(adds) > 0
    /\ Len(deletes) <= 5
    /\ Len(adds) <= 5

\* Math.min(deletes.length, adds.length)
maxPairs(deletes, adds) ==
    IF Len(deletes) <= Len(adds) THEN Len(deletes) ELSE Len(adds)

\* the test of the two for loops, one pair short
inPairsOneShort(j, pairs) == j + 1 < pairs

\* j < maxPairs
inPairs(j, pairs) == j < pairs

\* { ...change, wordDiff }
withWordDiff(change, wordDiff) ==
    [field \in DOMAIN change \cup {"wordDiff"} |->
        IF field = "wordDiff" THEN wordDiff ELSE change[field]]

\* one of the two for loops over j: run is deletes or adds
pairedRun(run, deletes, adds, forType) ==
    [j \in 1..Len(run) |->
        IF inPairs(j - 1, maxPairs(deletes, adds))
        THEN withWordDiff(run[j],
                          computeLineDiff(deletes[j].content, adds[j].content,
                                          forType))
        ELSE run[j]]

\* the push of the else branch without the adds
asIsDeletesOnly(deletes, adds) == deletes

\* result.push(...deletes, ...adds)
asIs(deletes, adds) == deletes \o adds

\* what one delete-then-add block pushes to result
blockResult(deletes, adds) ==
    IF eligible(deletes, adds)
    THEN pairedRun(deletes, deletes, adds, "delete")
             \o pairedRun(adds, deletes, adds, "add")
    ELSE asIs(deletes, adds)

----------------------------------------------------------------------------
(* The parsed files DiffCanvas starts from *)

MaxChanges == 7    \* changes of a hunk, by kind
MaxPairLen == 3    \* characters of a line of a pair of lines
MaxLineLen == 4    \* characters of a line paired with its reverse
MaxParts == 2      \* files, and hunks of a file

ChangeKinds == {"add", "delete", "normal"}

\* the changes parseHunk makes of lines of the given kinds and contents,
\* counted from line 1 on both sides; a line of kind undefined is a line of
\* unknown prefix
Numbered(kcs) ==
    [k \in 1..Len(kcs) |->
        LET old == 1 + Cardinality({ x \in 1..(k - 1) :
                                       kcs[x][1] \in {"delete", "normal"} })
            new == 1 + Cardinality({ x \in 1..(k - 1) :
                                       kcs[x][1] \in {"add", "normal"} })
        IN  [type |-> kcs[k][1],
             content |-> kcs[k][2],
             oldLineNumber |->
                 IF kcs[k][1] \in {"delete", "normal"} THEN Present(old) ELSE Absent,
             newLineNumber |->
                 IF kcs[k][1] \in {"add", "normal"} THEN Present(new) ELSE Absent]]

LHeaderOne == AtAtMinus \o <<"1">> \o SpacePlus \o <<"1">> \o SpaceAtAt
                                                               \* @@ -1 +1 @@

HunkOf(changes) ==
    [header |-> LHeaderOne,
     oldStart |-> 1, oldLines |-> 1, newStart |-> 1, newLines |-> 1,
     changes |-> changes,
     isExpanded |-> expandedByDefault]

FileOf(hunks) ==
    [oldPath |-> <<"f">>, newPath |-> <<"g">>,
     hunks |-> hunks,
     status |-> "modified",
     isExpanded |-> expandedByDefault]

OneHunk(kcs) == << FileOf(<< HunkOf(Numbered(kcs)) >>) >>

\* the contents of the changes of a hunk given by kinds: "a b", "b a", "a", ...
CycleLines == << <<"a", " ", "b">>, <<"b", " ", "a">>, <<"a">> >>
CycleLine(k) == CycleLines[(k % Len(CycleLines)) + 1]

PairChars == {"a", "b", " "}
PairLines == UNION { [1..n -> PairChars] : n \in 0..MaxPairLen }

TokenChars == {"a", "_", " ", "-"}
TokenLines == UNION { [1..n -> TokenChars] : n \in 0..MaxLineLen }

Reverse(s) == [k \in 1..Len(s) |-> s[Len(s) + 1 - k]]

\* the hunks of the inputs of several files: a replacement, and a hunk with
\* a line of unknown prefix
HunkOptions ==
    << Numbered(<< <<"delete", CycleLine(1)>>, <<"add", CycleLine(2)>> >>),
       Numbered(<< <<"normal", CycleLine(1)>>, <<Undefined, CycleLine(2)>>,
                   <<"add", CycleLine(3)>> >>) >>

FileShapes == UNION { [1..n -> DOMAIN HunkOptions] : n \in 0..MaxParts }

IsParsed(fs) ==
    \/ \E n \in 0..MaxChanges :
         \E kinds \in [1..n -> ChangeKinds] :
             fs = OneHunk([k \in 1..n |-> <<kinds[k], CycleLine(k)>>])
    \/ \E x \in PairLines, y \in PairLines :
         fs = OneHunk(<< <<"delete", x>>, <<"add", y>> >>)
    \/ \E x \in TokenLines :
         fs = OneHunk(<< <<"delete", x>>, <<"add", Reverse(x)>> >>)
    \/ \E n \in 0..MaxParts :
         \E shapes \in [1..n -> FileShapes] :
             fs = [k \in 1..n |->
                     FileOf([m \in 1..Len(shapes[k]) |->
                               HunkOf(HunkOptions[shapes[k][m]])])]

\* parseGitDiff has returned and DiffCanvas evaluates its first useMemo
InitView ==
    /\ IsParsed(files)
    /\ wordDiffEnabled \in BOOLEAN
    /\ pc = "useMemo"
    /\ lines = <<>>
    /\ i = 0
    /\ pf = NoFile
    /\ ph = NoHunk
    /\ wd = NoWordDiffs
    /\ memo = NoMemo
    /\ NoCanvas

----------------------------------------------------------------------------
(* DiffCanvas: the two memos; computeWordDiffs *)

\* wordDiffEnabled false: return parsed
useMemoParsed ==
    /\ pc = "useMemo"
    /\ ~wordDiffEnabled
    /\ memo' = [memo EXCEPT !.files = files]
    /\ pc' = "getDiffStats"
    /\ UNCHANGED <<lines, i, files, pf, ph, wordDiffEnabled, wd, canvasVars>>

\* wordDiffEnabled true: computeWordDiffs(parsed) is entered
useMemoWordDiffs ==
    /\ pc = "useMemo"
    /\ wordDiffEnabled
    /\ wd' = [f |-> 1, h |-> 1, i |-> 0,
              result |-> <<>>, hunks |-> <<>>, files |-> <<>>]
    /\ pc' = "computeWordDiffs"
    /\ UNCHANGED <<lines, i, files, pf, ph, wordDiffEnabled, memo, canvasVars>>

\* file.hunks.map at a hunk: computeHunkWordDiffs(hunk.changes) is entered
computeWordDiffsHunk ==
    /\ pc = "computeWordDiffs"
    /\ wd.f <= Len(files)
    /\ wd.h <= Len(files[wd.f].hunks)
    /\ wd' = [wd EXCEPT !.i = 0, !.result = <<>>]
    /\ pc' = "computeHunkWordDiffs"
    /\ UNCHANGED <<lines, i, files, pf, ph, wordDiffEnabled, memo, canvasVars>>

\* files.map at the end of the hunks of a file: { ...file, hunks }
computeWordDiffsFile ==
    /\ pc = "computeWordDiffs"
    /\ wd.f <= Len(files)
    /\ wd.h > Len(files[wd.f].hunks)
    /\ wd' = [wd EXCEPT
                !.files = Append(@, [files[wd.f] EXCEPT !.hunks = wd.hunks]),
                !.hunks = <<>>,
                !.f = @ + 1,
                !.h = 1]
    /\ UNCHANGED <<lines, pc, i, files, pf, ph, wordDiffEnabled, memo, canvasVars>>

\* files.map is through: the mapped files are the memo
computeWordDiffsReturn ==
    /\ pc = "computeWordDiffs"
    /\ wd.f > Len(files)
    /\ memo' = [memo EXCEPT !.files = wd.files]
    /\ wd' = NoWordDiffs
    /\ pc' = "getDiffStats"
    /\ UNCHANGED <<lines, i, files, pf, ph, wordDiffEnabled, canvasVars>>

\* the changes computeHunkWordDiffs was called with
hunkChanges == files[wd.f].hunks[wd.h].changes

\* one iteration of the loop at a delete: the deletes and the adds after them
\* are collected and pushed, with or without word diffs
computeHunkWordDiffsBlock ==
    /\ pc = "computeHunkWordDiffs"
    /\ wd.i < Len(hunkChanges)
    /\ hunkChanges[wd.i + 1].type = "delete"
    /\ LET deletesEnd == runEnd(hunkChanges, wd.i, "delete")
           addsEnd == runEnd(hunkChanges, deletesEnd, "add")
           deletes == SubSeq(hunkChanges, wd.i + 1, deletesEnd)
           adds == SubSeq(hunkChanges, deletesEnd + 1, addsEnd)
       IN  wd' = [wd EXCEPT
                    !.result = @ \o blockResult(deletes, adds),
                    !.i = addsEnd]
    /\ UNCHANGED <<lines, pc, i, files, pf, ph, wordDiffEnabled, memo, canvasVars>>

\* one iteration at any other change: result.push(change); i++
computeHunkWordDiffsOther ==
    /\ pc = "computeHunkWordDiffs"
    /\ wd.i < Len(hunkChanges)
    /\ hunkChanges[wd.i + 1].type # "delete"
    /\ wd' = [wd EXCEPT
                !.result = Append(@, hunkChanges[wd.i + 1]),
                !.i = @ + 1]
    /\ UNCHANGED <<lines, pc, i, files, pf, ph, wordDiffEnabled, memo, canvasVars>>

\* return result: { ...hunk, changes: result } is the mapped hunk
computeHunkWordDiffsReturn ==
    /\ pc = "computeHunkWordDiffs"
    /\ wd.i >= Len(hunkChanges)
    /\ wd' = [wd EXCEPT
                !.hunks = Append(@, [files[wd.f].hunks[wd.h] EXCEPT
                                       !.changes = wd.result]),
                !.result = <<>>,
                !.i = 0,
                !.h = @ + 1]
    /\ pc' = "computeWordDiffs"
    /\ UNCHANGED <<lines, i, files, pf, ph, wordDiffEnabled, memo, canvasVars>>

\* const stats = useMemo(() => getDiffStats(files), [files])
useMemoStats ==
    /\ pc = "getDiffStats"
    /\ memo' = [memo EXCEPT !.stats = getDiffStats(memo.files)]
    /\ pc' = "rendered"
    /\ UNCHANGED <<lines, i, files, pf, ph, wordDiffEnabled, wd, canvasVars>>

NextView ==
    \/ useMemoParsed
    \/ useMemoWordDiffs
    \/ computeWordDiffsHunk
    \/ computeWordDiffsFile
    \/ computeWordDiffsReturn
    \/ computeHunkWordDiffsBlock
    \/ computeHunkWordDiffsOther
    \/ computeHunkWordDiffsReturn
    \/ useMemoStats

SpecView == InitView /\ [][NextView]_vars

----------------------------------------------------------------------------
(* DiffCanvas: the configs, the visible lines *)

MaxViewportHeight == 3   \* rows of the terminal left for the lines

\* the diffs of the configs, each file by the numbers of changes of its hunks
DiffPool ==
    [none  |-> <<>>,
     empty |-> <<>>,
     one   |-> << <<1, 1>> >>,
     two   |-> << <<1>>, <<2>> >>]

Configs ==
    { [diff |-> "empty", expandedByDefault |-> TRUE],
      [diff |-> "one", expandedByDefault |-> TRUE],
      [diff |-> "two", expandedByDefault |-> FALSE] }

\* parseGitDiff(diffInput, expandedByDefault) for a diff of the pool: every
\* change is an added line
parsed(config) ==
    LET sizes == DiffPool[config.diff]
    IN  [f \in 1..Len(sizes) |->
           [oldPath |-> <<"f">>, newPath |-> <<"g">>,
            hunks |->
               [h \in 1..Len(sizes[f]) |->
                  [header |-> LHeaderOne,
                   oldStart |-> 1, oldLines |-> 1, newStart |-> 1, newLines |-> 1,
                   changes |-> Numbered([c \in 1..sizes[f][h] |->
                                           <<"add", CycleLine(c)>>]),
                   isExpanded |-> config.expandedByDefault]],
            status |-> "modified",
            isExpanded |-> config.expandedByDefault]]

\* fileCollapses?.has(hunkIndex)
hunkCollapsed(collapsed, fileIndex, hunkIndex) ==
    fileIndex \in DOMAIN collapsed /\ hunkIndex \in collapsed[fileIndex]

\* hunk.changes.forEach: the change lines of a hunk
changeLines(hunk, fileIndex, hunkIndex) ==
    [c \in 1..Len(hunk.changes) |->
        [type |-> "change", fileIndex |-> fileIndex, hunkIndex |-> hunkIndex,
         changeIndex |-> c - 1]]

\* file.hunks.forEach from the hunk of index hunkIndex on
RECURSIVE hunkLines(_, _, _, _)
hunkLines(file, fileIndex, hunkIndex, collapsed) ==
    IF hunkIndex >= Len(file.hunks) THEN <<>>
    ELSE << [type |-> "hunk-header", fileIndex |-> fileIndex,
             hunkIndex |-> hunkIndex] >>
           \o (IF hunkCollapsed(collapsed, fileIndex, hunkIndex) THEN <<>>
               ELSE changeLines(file.hunks[hunkIndex + 1], fileIndex, hunkIndex))
           \o hunkLines(file, fileIndex, hunkIndex + 1, collapsed)

\* files.forEach from the file of index fileIndex on
RECURSIVE fileLines(_, _, _, _)
fileLines(fs, fileIndex, collapsedF, collapsedH) ==
    IF fileIndex >= Len(fs) THEN <<>>
    ELSE << [type |-> "file-header", fileIndex |-> fileIndex] >>
           \o (IF fileIndex \in collapsedF THEN <<>>
               ELSE hunkLines(fs[fileIndex + 1], fileIndex, 0, collapsedH))
           \o fileLines(fs, fileIndex + 1, collapsedF, collapsedH)

\* const virtualLines = useMemo(..., [files, collapsedFiles, collapsedHunks])
virtualLines == fileLines(files, 0, collapsedFiles, collapsedHunks)

\* Math.min of two numbers
mathMin(x, y) == IF x <= y THEN x ELSE y

\* const maxScroll = Math.max(0, virtualLines.length - viewportHeight)
maxScroll == mathMax(0, Len(virtualLines) - viewportHeight)

\* ensureCursorVisible: the new scrollOffset
ensureCursorVisible(offset, line) ==
    IF line < offset THEN line
    ELSE IF line >= offset + viewportHeight THEN line - viewportHeight + 1
    ELSE offset

\* toggleFile that only ever adds
toggleFileAddOnly(prev, fileIndex) == prev \cup {fileIndex}

\* toggleFile: the next collapsedFiles
toggleFile(prev, fileIndex) ==
    IF fileIndex \in prev THEN prev \ {fileIndex} ELSE prev \cup {fileIndex}

\* toggleHunk: the next collapsedHunks
toggleHunk(prev, fileIndex, hunkIndex) ==
    LET old == IF fileIndex \in DOMAIN prev THEN prev[fileIndex] ELSE {}
        fileSet == IF hunkIndex \in old THEN old \ {hunkIndex}
                   ELSE old \cup {hunkIndex}
    IN  [f \in DOMAIN prev \cup {fileIndex} |->
            IF f = fileIndex THEN fileSet ELSE prev[f]]

\* the while loop of findNextHunk and findNextFile from line on
RECURSIVE findFrom(_, _, _, _, _)
findFrom(vLines, line, direction, type, fromLine) ==
    IF ~(line >= 0 /\ line < Len(vLines)) THEN fromLine
    ELSE IF vLines[line + 1].type = type THEN line
    ELSE findFrom(vLines, line + direction, direction, type, fromLine)

findNextHunk(fromLine, direction) ==
    findFrom(virtualLines, fromLine + direction, direction, "hunk-header", fromLine)

findNextFile(fromLine, direction) ==
    findFrom(virtualLines, fromLine + direction, direction, "file-header", fromLine)

----------------------------------------------------------------------------
(* DiffCanvas: the keys and the IPC callbacks.  key is the event the canvas
   handled last; the terminal keeps the height it has at the start *)

Keys ==
    {"escape", "q", "upArrow", "k", "downArrow", "j", "pageUp", "pageDown",
     "n", "p", "]", "[", "return", "x"}

\* const files = useMemo(...): every change of the pool is an added line, so
\* computeWordDiffs pairs nothing and returns the parsed files
InitCanvas ==
    /\ lines = <<>>
    /\ i = 0
    /\ pf = NoFile
    /\ ph = NoHunk
    /\ pc = "DiffCanvas"
    /\ wordDiffEnabled = TRUE
    /\ wd = NoWordDiffs
    /\ memo = NoMemo
    /\ liveConfig \in Configs
    /\ files = parsed(liveConfig)
    /\ viewportHeight \in 1..MaxViewportHeight
    /\ scrollOffset = 0
    /\ cursorLine = 0
    /\ collapsedFiles = {}
    /\ collapsedHunks = <<>>
    /\ key = "none"
    /\ sent = <<>>
    /\ exited = FALSE

\* the canvas is mounted and no handler is half way
running == ~exited /\ sent = <<>>

\* key.escape || input === "q", with Escape left out
isQuitOnlyQ(k) == k = "q"

\* key.escape || input === "q"
isQuit(k) == k \in {"escape", "q"}

\* ipc.sendSelected(result)
sendSelected(outbox, result) == Append(outbox, result)

\* if (key.escape || input === "q"): the result is sent
useInputQuit ==
    /\ running
    /\ \E k \in Keys :
         /\ isQuit(k)
         /\ key' = k
    /\ sent' = sendSelected(sent, [dismissed |-> TRUE])
    /\ UNCHANGED <<lines, pc, i, files, pf, ph, viewVars, liveConfig,
                   viewportHeight, scrollOffset, cursorLine, collapsedFiles,
                   collapsedHunks, exited>>

\* exit() after ipc.sendSelected(result)
useInputExit ==
    /\ ~exited
    /\ sent # <<>>
    /\ exited' = TRUE
    /\ UNCHANGED <<lines, pc, i, files, pf, ph, viewVars, liveConfig,
                   viewportHeight, scrollOffset, cursorLine, collapsedFiles,
                   collapsedHunks, key, sent>>

\* setCursorLine(newLine); ensureCursorVisible(newLine)
moveTo(newLine) ==
    /\ cursorLine' = newLine
    /\ scrollOffset' = ensureCursorVisible(scrollOffset, newLine)
    /\ UNCHANGED <<lines, pc, i, files, pf, ph, viewVars, liveConfig,
                   viewportHeight, collapsedFiles, collapsedHunks, sent, exited>>

\* if (key.upArrow || input === "k")
useInputUp ==
    /\ running
    /\ \E k \in Keys :
         /\ ~isQuit(k)
         /\ k \in {"upArrow", "k"}
         /\ key' = k
    /\ moveTo(mathMax(0, cursorLine - 1))

\* if (key.downArrow || input === "j")
useInputDown ==
    /\ running
    /\ \E k \in Keys :
         /\ ~isQuit(k)
         /\ k \in {"downArrow", "j"}
         /\ key' = k
    /\ moveTo(mathMin(Len(virtualLines) - 1, cursorLine + 1))

\* if (key.pageUp)
useInputPageUp ==
    /\ running
    /\ ~isQuit("pageUp")
    /\ key' = "pageUp"
    /\ cursorLine' = mathMax(0, cursorLine - viewportHeight)
    /\ scrollOffset' = mathMax(0, scrollOffset - viewportHeight)
    /\ UNCHANGED <<lines, pc, i, files, pf, ph, viewVars, liveConfig,
                   viewportHeight, collapsedFiles, collapsedHunks, sent, exited>>

\* if (key.pageDown)
useInputPageDown ==
    /\ running
    /\ ~isQuit("pageDown")
    /\ key' = "pageDown"
    /\ cursorLine' = mathMin(Len(virtualLines) - 1, cursorLine + viewportHeight)
    /\ scrollOffset' = mathMin(maxScroll, scrollOffset + viewportHeight)
    /\ UNCHANGED <<lines, pc, i, files, pf, ph, viewVars, liveConfig,
                   viewportHeight, collapsedFiles, collapsedHunks, sent, exited>>

\* if (input === "n")
useInputNextHunk ==
    /\ running
    /\ ~isQuit("n")
    /\ key' = "n"
    /\ moveTo(findNextHunk(cursorLine, 1))

\* if (input === "p")
useInputPrevHunk ==
    /\ running
    /\ ~isQuit("p")
    /\ key' = "p"
    /\ moveTo(findNextHunk(cursorLine, -1))

\* if (input === "]")
useInputNextFile ==
    /\ running
    /\ ~isQuit("]")
    /\ key' = "]"
    /\ moveTo(findNextFile(cursorLine, 1))

\* if (input === "[")
useInputPrevFile ==
    /\ running
    /\ ~isQuit("[")
    /\ key' = "["
    /\ moveTo(findNextFile(cursorLine, -1))

\* const currentLine = virtualLines[cursorLine]
onLine == cursorLine >= 0 /\ cursorLine < Len(virtualLines)

currentLine == virtualLines[cursorLine + 1]

\* if (key.return), currentLine?.type === "file-header"
useInputReturnFile ==
    /\ running
    /\ ~isQuit("return")
    /\ onLine
    /\ currentLine.type = "file-header"
    /\ key' = "return"
    /\ collapsedFiles' = toggleFile(collapsedFiles, currentLine.fileIndex)
    /\ UNCHANGED <<lines, pc, i, files, pf, ph, viewVars, liveConfig,
                   viewportHeight, scrollOffset, cursorLine, collapsedHunks,
                   sent, exited>>

\* if (key.return), currentLine?.type === "hunk-header"
useInputReturnHunk ==
    /\ running
    /\ ~isQuit("return")
    /\ onLine
    /\ currentLine.type = "hunk-header"
    /\ key' = "return"
    /\ collapsedHunks' =
         toggleHunk(collapsedHunks, currentLine.fileIndex, currentLine.hunkIndex)
    /\ UNCHANGED <<lines, pc, i, files, pf, ph, viewVars, liveConfig,
                   viewportHeight, scrollOffset, cursorLine, collapsedFiles,
                   sent, exited>>

\* if (key.return) on a change line or on no line, and every key no branch
\* of the handler names
useInputNothing ==
    /\ running
    /\ \E k \in Keys :
         /\ ~isQuit(k)
         /\ IF k = "return"
              THEN IF onLine THEN currentLine.type = "change" ELSE TRUE
              ELSE k \notin {"upArrow", "k", "downArrow", "j", "pageUp",
                             "pageDown", "n", "p", "]", "["}
         /\ key' = k
    /\ UNCHANGED <<lines, pc, i, files, pf, ph, viewVars, liveConfig,
                   viewportHeight, scrollOffset, cursorLine, collapsedFiles,
                   collapsedHunks, sent, exited>>

\* onUpdate: (newConfig) => { setLiveConfig(newConfig as DiffConfig); }
onUpdate ==
    /\ running
    /\ \E newConfig \in Configs :
         /\ liveConfig' = newConfig
         /\ files' = parsed(newConfig)
    /\ key' = "update"
    /\ UNCHANGED <<lines, pc, i, pf, ph, viewVars, viewportHeight, scrollOffset,
                   cursorLine, collapsedFiles, collapsedHunks, sent, exited>>

\* onClose: () => exit()
onClose ==
    /\ running
    /\ exited' = TRUE
    /\ key' = "close"
    /\ UNCHANGED <<lines, pc, i, files, pf, ph, viewVars, liveConfig,
                   viewportHeight, scrollOffset, cursorLine, collapsedFiles,
                   collapsedHunks, sent>>

NextCanvas ==
    \/ useInputQuit
    \/ useInputExit
    \/ useInputUp
    \/ useInputDown
    \/ useInputPageUp
    \/ useInputPageDown
    \/ useInputNextHunk
    \/ useInputPrevHunk
    \/ useInputNextFile
    \/ useInputPrevFile
    \/ useInputReturnFile
    \/ useInputReturnHunk
    \/ useInputNothing
    \/ onUpdate
    \/ onClose

SpecCanvas == InitCanvas /\ [][NextCanvas]_vars

----------------------------------------------------------------------------
(* The input, read as text: what the claims speak of *)

NumLines == Len(lines)

Min(S) == CHOOSE x \in S : \A y \in S : x <= y
Max(S) == CHOOSE x \in S : \A y \in S : x >= y

\* the k-th smallest member of a set of numbers, k from 1
Kth(S, k) == CHOOSE x \in S : Cardinality({ y \in S : y < x }) = k - 1

RECURSIVE SumTo(_, _)
SumTo(seq, n) == IF n = 0 THEN 0 ELSE seq[n] + SumTo(seq, n - 1)
Sum(seq) == SumTo(seq, Len(seq))

\* the lines of the pool by what they are
DiffGitNames == { n \in DOMAIN LinePool : startsWith(LinePool[n], DiffGit) }
AtAtNames == { n \in DOMAIN LinePool : startsWith(LinePool[n], AtAt) }
BoundaryNames == { n \in DiffGitNames : pathMatch(LinePool[n]).ok }
HeaderNames == { n \in AtAtNames : headerMatch(LinePool[n]).ok }
BinaryNames == { n \in DOMAIN LinePool : startsWith(LinePool[n], BinaryFiles) }

IsDiffGit(k) == lines[k + 1] \in DiffGitNames
IsAtAt(k) == lines[k + 1] \in AtAtNames
IsBoundary(k) == lines[k + 1] \in BoundaryNames
IsBadBoundary(k) == IsDiffGit(k) /\ ~IsBoundary(k)
IsHeader(k) == lines[k + 1] \in HeaderNames
IsBadHeader(k) == IsAtAt(k) /\ ~IsHeader(k)
IsBinary(k) == lines[k + 1] \in BinaryNames

\* the lines that match the boundary pattern; the k-th of them
Boundaries == { k \in 0..(NumLines - 1) : IsBoundary(k) }
Boundary(k) == Kth(Boundaries, k)

\* the first line after b that starts with "diff --git", or the end
NextDiffGit(b) == Min({ j \in (b + 1)..(NumLines - 1) : IsDiffGit(j) } \cup {NumLines})

\* the lines of the section of boundary b that match the header grammar
Headers(b) == { j \in (b + 1)..(NextDiffGit(b) - 1) : IsHeader(j) }

\* the first line after h that starts with "@@" or "diff --git", or the end
NextStop(h) ==
    Min({ j \in (h + 1)..(NumLines - 1) : IsAtAt(j) \/ IsDiffGit(j) } \cup {NumLines})

\* where the metadata block of boundary b ends
MetadataEnd(b) ==
    Min({ j \in (b + 1)..(NumLines - 1) :
            IsDiffGit(j) \/ IsAtAt(j) \/ IsBinary(j) }
        \cup {NumLines})

StatusWord(line) ==
    CASE startsWith(line, NewFileMode) -> "added"
      [] startsWith(line, DeletedFileMode) -> "deleted"
      [] startsWith(line, RenameFrom) -> "renamed"
      [] startsWith(line, CopyFrom) -> "copied"
      [] OTHER -> "modified"

\* the status the last (the first) status-setting line of the metadata block
\* of boundary b sets, "modified" when the block has none
StatusOfLines(S, pick) == IF S = {} THEN "modified" ELSE StatusWord(Line(pick))

\* the status-setting lines of the metadata block of boundary b
StatusLines(b) ==
    { j \in (b + 1)..(MetadataEnd(b) - 1) : StatusWord(Line(j)) # "modified" }

\* a body line that is non-empty, no boundary, and starts with none of + - space \
IsAnomalous(k) ==
    /\ Line(k) # <<>>
    /\ ~IsAtAt(k)
    /\ ~IsDiffGit(k)
    /\ Line(k)[1] \notin {"+", "-", " ", "\\"}

IsNoNewline(k) == Line(k) # <<>> /\ Line(k)[1] = "\\"

\* every hunk of the returned files, as <<file number, hunk number>>
ReturnedHunks ==
    { fh \in (1..Len(files)) \X (1..NumLines) : fh[2] <= Len(files[fh[1]].hunks) }

HunkAt(fh) == files[fh[1]].hunks[fh[2]]

CarriesOld(c) == c.oldLineNumber # Absent
CarriesNew(c) == c.newLineNumber # Absent

----------------------------------------------------------------------------
(* C1 *)

\* the anomalous lines parseHunk has passed in the body of the running hunk
PassedAnomalous ==
    { k \in (ph.startIndex + 1)..(ph.i - 1) : IsAnomalous(k) }

\* C1: an anomalous body line ends the parsing of the hunk: no line after the
\* first anomalous line of the body is added to the hunk's changes.  The
\* changes then number at most the body lines up to and including that line
\* that are no "\" markers (the anomalous line itself may or may not be kept).
C1_AnomalousLineEndsHunk ==
    (pc = "parseHunk" /\ PassedAnomalous # {}) =>
        Len(ph.changes) <=
            Cardinality({ k \in (ph.startIndex + 1)..Min(PassedAnomalous) :
                            ~IsNoNewline(k) })

----------------------------------------------------------------------------
(* C2 *)

\* the number of the first j - 1 changes that carry an old (a new) line number
OldBefore(changes, j) == Cardinality({ x \in 1..(j - 1) : CarriesOld(changes[x]) })
NewBefore(changes, j) == Cardinality({ x \in 1..(j - 1) : CarriesNew(changes[x]) })

\* C2: in every returned hunk the i-th change that carries an old line number
\* has oldStart + i - 1, and the i-th change that carries a new line number
\* has newStart + i - 1.
C2_LineNumbersCountChanges ==
    pc = "done" =>
        \A fh \in ReturnedHunks :
            LET h == HunkAt(fh) IN
            \A j \in 1..Len(h.changes) :
                /\ CarriesOld(h.changes[j]) =>
                     h.changes[j].oldLineNumber
                       = Present(h.oldStart + OldBefore(h.changes, j))
                /\ CarriesNew(h.changes[j]) =>
                     h.changes[j].newLineNumber
                       = Present(h.newStart + NewBefore(h.changes, j))

\* a returned hunk whose third change is the second to carry an old number and
\* the second to carry a new one, after a delete and an add
C2_Witness ==
    /\ pc = "done"
    /\ \E fh \in ReturnedHunks :
         LET h == HunkAt(fh) IN
         /\ Len(h.changes) = 3
         /\ h.oldStart # h.newStart
         /\ h.changes[1].type = "delete"
         /\ h.changes[2].type = "add"
         /\ h.changes[3].oldLineNumber = Present(h.oldStart + 1)
         /\ h.changes[3].newLineNumber = Present(h.newStart + 1)

----------------------------------------------------------------------------
(* C3 *)

\* C3, as amended: the status of a returned file is set by the last
\* status-setting line of its metadata block (the lines after the boundary
\* and before the first line that starts with "@@", "Binary files" or
\* "diff --git"), and is "modified" when the block has none.
C3_LastStatusLineWins ==
    pc = "done" =>
        \A k \in 1..Len(files) :
            LET S == StatusLines(Boundary(k))
            IN  files[k].status = StatusOfLines(S, Max(S))

\* C3, as claimed: the first status-setting line of the metadata block sets
\* the status and a later one does not change it.
C3_FirstStatusLineWins ==
    pc = "done" =>
        \A k \in 1..Len(files) :
            LET S == StatusLines(Boundary(k))
            IN  files[k].status = StatusOfLines(S, Min(S))

\* a returned file whose metadata block holds two status-setting lines of
\* different status, and one whose block holds none
C3_Witness ==
    /\ pc = "done"
    /\ \E k \in 1..Len(files) :
         LET S == StatusLines(Boundary(k))
         IN  S # {} /\ StatusWord(Line(Min(S))) # StatusWord(Line(Max(S)))
    /\ \E k \in 1..Len(files) : StatusLines(Boundary(k)) = {}

----------------------------------------------------------------------------
(* C4 *)

\* the metadata block of boundary b ends at a "Binary files" line
IsBinarySection(b) ==
    /\ MetadataEnd(b) < NumLines
    /\ IsBinary(MetadataEnd(b))

\* C4: a returned file whose metadata holds a "Binary files" line has an
\* empty hunk list, whatever follows that line in its section.
C4_BinaryFileHasNoHunks ==
    pc = "done" =>
        \A k \in 1..Len(files) :
            IsBinarySection(Boundary(k)) => files[k].hunks = <<>>

----------------------------------------------------------------------------
(* C5 *)

\* C5: the returned files are, in order, the lines of the input that match
\* the boundary pattern: the k-th file has the paths of the k-th such line,
\* and at the end there are as many files as such lines.
C5_OneFilePerBoundary ==
    pc = "done" =>
        /\ Len(files) = Cardinality(Boundaries)
        /\ \A k \in 1..Len(files) :
             LET m == pathMatch(Line(Boundary(k)))
             IN  files[k].oldPath = m.oldPath /\ files[k].newPath = m.newPath

\* two files of different paths are returned, the second boundary coming
\* directly after the body of a hunk of the first
C5_Witness ==
    /\ pc = "done"
    /\ Len(files) = 2
    /\ files[1].newPath # files[2].newPath
    /\ files[1].hunks # <<>>
    /\ files[1].hunks[Len(files[1].hunks)].changes # <<>>
    /\ IsBoundary(Boundary(2)) /\ ~IsAtAt(Boundary(2) - 1)

----------------------------------------------------------------------------
(* C6 *)

\* the lines that start with "diff --git" and do not match the pattern
BadBoundaries == { k \in 0..(NumLines - 1) : IsBadBoundary(k) }

\* line k lies in the section of a boundary that matches: the last line at or
\* before k that starts with "diff --git" matches the pattern
InFileSection(k) ==
    /\ \E j \in 0..k : IsDiffGit(j)
    /\ IsBoundary(Max({ j \in 0..k : IsDiffGit(j) }))

HunkCounts == [k \in 1..Len(files) |-> Len(files[k].hunks)]

ChangeCounts ==
    [k \in 1..Len(files) |->
        Sum([m \in 1..Len(files[k].hunks) |-> Len(files[k].hunks[m].changes)])]

\* C6: a malformed "diff --git" line gives no file, and the lines from it up
\* to the next "diff --git" line give nothing: at the end the files are as
\* many as the well-formed boundaries, their hunks as many as the headers
\* that lie in the sections of well-formed boundaries, and their changes no
\* more than the other lines of those sections.
C6_BadBoundarySectionDropped ==
    pc = "done" =>
        /\ Len(files) + Cardinality(BadBoundaries)
             = Cardinality({ k \in 0..(NumLines - 1) : IsDiffGit(k) })
        /\ Sum(HunkCounts)
             = Cardinality({ k \in 0..(NumLines - 1) : IsHeader(k) /\ InFileSection(k) })
        /\ Sum(ChangeCounts)
             <= Cardinality({ k \in 0..(NumLines - 1) :
                                InFileSection(k) /\ ~IsDiffGit(k) /\ ~IsAtAt(k) })

\* a file with a hunk is returned, and after it the input holds a malformed
\* boundary followed by a well-formed header and a change line
C6_Witness ==
    /\ pc = "done"
    /\ Len(files) = 1
    /\ Len(files[1].hunks) = 1
    /\ \E k \in BadBoundaries :
         /\ k > Boundary(1)
         /\ k + 2 < NumLines
         /\ IsHeader(k + 1)
         /\ Line(k + 2) = LAdd

----------------------------------------------------------------------------
(* C7 *)

\* C7: a line that starts with "@@" and does not match the grammar gives no
\* hunk, and the lines after it are in no hunk: a file has at most one hunk
\* per matching header of its section, and the changes of its m-th hunk are
\* no more than the lines between the m-th matching header and the next line
\* that starts with "@@" or "diff --git".
C7_BadHeaderDropped ==
    pc = "done" =>
        \A k \in 1..Len(files) :
            LET H == Headers(Boundary(k)) IN
            /\ Len(files[k].hunks) <= Cardinality(H)
            /\ \A m \in 1..Len(files[k].hunks) :
                 LET h == Kth(H, m)
                 IN  Len(files[k].hunks[m].changes) <= NextStop(h) - h - 1

\* a returned file whose first hunk is followed by a malformed "@@" line and
\* then by a change line
C7_Witness ==
    /\ pc = "done"
    /\ \E k \in 1..Len(files) :
         /\ files[k].hunks # <<>>
         /\ files[k].hunks[1].changes # <<>>
         /\ LET s == NextStop(Kth(Headers(Boundary(k)), 1))
            IN  /\ s + 1 < NumLines
                /\ IsBadHeader(s)
                /\ Line(s + 1) = LAdd

----------------------------------------------------------------------------
(* C8 *)

\* C8: in a file section every matching header gives one hunk, in source
\* order; parseHunk passes no line that starts with "@@" or "diff --git" and
\* returns the index of that line when it stops there; and no line is taken
\* twice: the headers and changes of a file are no more than the lines of
\* its section.
C8_OneHunkPerHeaderInOrder ==
    /\ pc = "done" =>
         \A k \in 1..Len(files) :
             LET b == Boundary(k)
                 H == Headers(b)
             IN  /\ Len(files[k].hunks) = Cardinality(H)
                 /\ \A m \in 1..Len(files[k].hunks) :
                      files[k].hunks[m].header = Line(Kth(H, m))
                 /\ HunkCounts[k] + ChangeCounts[k] <= NextDiffGit(b) - b - 1
    /\ pc = "parseHunk" =>
         /\ \A j \in (ph.startIndex + 1)..(ph.i - 1) : ~IsAtAt(j) /\ ~IsDiffGit(j)
         /\ (ph.i < NumLines /\ (IsAtAt(ph.i) \/ IsDiffGit(ph.i))) =>
              hunkResult(ph).nextIndex = ph.i

\* a returned file with two hunks of different headers, the second header
\* coming directly after a change line of the first
C8_Witness ==
    /\ pc = "done"
    /\ \E k \in 1..Len(files) :
         /\ Len(files[k].hunks) = 2
         /\ files[k].hunks[1].header # files[k].hunks[2].header
         /\ files[k].hunks[1].changes # <<>>

----------------------------------------------------------------------------
(* C9 *)

\* C9: every change of every returned hunk has kind add, delete or normal.
C9_ChangeKinds ==
    pc = "done" =>
        \A fh \in ReturnedHunks :
            \A j \in 1..Len(HunkAt(fh).changes) :
                HunkAt(fh).changes[j].type \in {"add", "delete", "normal"}

----------------------------------------------------------------------------
(* C10 *)

\* C10: a returned change carries an old line number exactly when its kind
\* is delete or normal, and a new line number exactly when its kind is add
\* or normal.
C10_LineNumbersByKind ==
    pc = "done" =>
        \A fh \in ReturnedHunks :
            \A j \in 1..Len(HunkAt(fh).changes) :
                LET c == HunkAt(fh).changes[j] IN
                /\ CarriesOld(c) <=> c.type \in {"delete", "normal"}
                /\ CarriesNew(c) <=> c.type \in {"add", "normal"}

\* a returned hunk with an add, a delete and a normal change
C10_Witness ==
    /\ pc = "done"
    /\ \E fh \in ReturnedHunks :
         \A t \in {"add", "delete", "normal"} :
             \E j \in 1..Len(HunkAt(fh).changes) : HunkAt(fh).changes[j].type = t

----------------------------------------------------------------------------
(* C11 *)

\* C11: a step of parseHunk at an empty line. When the line is the last of
\* the input the hunk is returned with the changes it had, the empty line
\* giving none, and the hunk loop resumes at that line; anywhere else the
\* step appends a normal change with empty content that takes both current
\* numbers and advances both counters, and parseHunk goes on at the next line.
C11_EmptyLineInHunk ==
    [][(pc = "parseHunk" /\ ph.i < NumLines /\ Line(ph.i) = <<>>) =>
         IF ph.i = NumLines - 1
         THEN /\ pc' = "hunks"
              /\ Len(pf'.hunks) = Len(pf.hunks) + 1
              /\ pf'.hunks[Len(pf'.hunks)].changes = ph.changes
              /\ pf'.i = ph.i
         ELSE /\ pc' = "parseHunk"
              /\ ph'.changes =
                    Append(ph.changes,
                           [type |-> "normal", content |-> <<>>,
                            oldLineNumber |-> Present(ph.currentOldLine),
                            newLineNumber |-> Present(ph.currentNewLine)])
              /\ ph'.currentOldLine = ph.currentOldLine + 1
              /\ ph'.currentNewLine = ph.currentNewLine + 1
              /\ ph'.i = ph.i + 1]_vars

\* a returned hunk whose body runs to the end of an input that ends with an
\* empty line: its first change came from an empty line and is followed by
\* another change, and the last line gave no change
C11_Witness ==
    /\ pc = "done"
    /\ NumLines >= 5
    /\ Line(NumLines - 1) = <<>>
    /\ Line(2) = <<>>
    /\ Len(files) = 1
    /\ Len(files[1].hunks) = 1
    /\ LET changes == files[1].hunks[1].changes
       IN  /\ Len(changes) = NumLines - 3
           /\ changes[1].type = "normal"
           /\ changes[1].content = <<>>
           /\ changes[2].type = "add"

----------------------------------------------------------------------------
(* C12 *)

DecimalDigits == <<"0", "1", "2", "3", "4", "5", "6", "7", "8", "9">>

\* the decimal numeral of a natural number
RECURSIVE Decimal(_)
Decimal(n) ==
    IF n < 10 THEN <<DecimalDigits[n + 1]>>
    ELSE Decimal(n \div 10) \o <<DecimalDigits[(n % 10) + 1]>>

\* the text "@@ -O[,OL] +N[,NL] @@" written from the fields of a hunk
HeaderText(h, oldGiven, newGiven) ==
    AtAtMinus \o Decimal(h.oldStart)
        \o (IF oldGiven THEN <<",">> \o Decimal(h.oldLines) ELSE <<>>)
        \o SpacePlus \o Decimal(h.newStart)
        \o (IF newGiven THEN <<",">> \o Decimal(h.newLines) ELSE <<>>)
        \o SpaceAtAt

\* C12: the header of a returned hunk is its header line verbatim, and that
\* line begins with the text written from the hunk's fields: the two starts,
\* and each count either written as it is (0 included) or left out, in which
\* case the count is 1.  (No numeral of the inputs has a leading zero.)
C12_HeaderFields ==
    pc = "done" =>
        \A k \in 1..Len(files) :
            \A m \in 1..Len(files[k].hunks) :
                LET h == files[k].hunks[m] IN
                /\ h.header = Line(Kth(Headers(Boundary(k)), m))
                /\ \E oldGiven \in BOOLEAN, newGiven \in BOOLEAN :
                      /\ ~oldGiven => h.oldLines = 1
                      /\ ~newGiven => h.newLines = 1
                      /\ startsWith(h.header, HeaderText(h, oldGiven, newGiven))

\* a returned file with a hunk of header "@@ -3,2 +5 @@" (new count left out)
\* and a hunk of header "@@ -1 +10,0 @@ f" (old count left out, new count 0)
C12_Witness ==
    /\ pc = "done"
    /\ \E k \in 1..Len(files) :
         /\ \E m \in 1..Len(files[k].hunks) :
              LET h == files[k].hunks[m] IN
              h.header = LHeader /\ h.oldLines = 2 /\ h.newLines = 1
         /\ \E m \in 1..Len(files[k].hunks) :
              LET h == files[k].hunks[m] IN
              /\ h.header = LHeader2
              /\ h.oldLines = 1 /\ h.newStart = 10 /\ h.newLines = 0

----------------------------------------------------------------------------
(* C13 *)

OldSidePrefixes == {" ", "-"}
BodyPrefixes == {" ", "-", "+", "\\"}

\* the input is one file line, one matching header and then lines that each
\* start with ' ', '-', '+' or '\'
SingleHunkBody ==
    /\ NumLines >= 2
    /\ IsBoundary(0)
    /\ IsHeader(1)
    /\ \A k \in 2..(NumLines - 1) :
         Line(k) # <<>> /\ Line(k)[1] \in BodyPrefixes

\* the lines from k on that start with ' ' or '-', without that character
RECURSIVE OldSideFrom(_)
OldSideFrom(k) ==
    IF k >= NumLines THEN <<>>
    ELSE (IF Line(k)[1] \in OldSidePrefixes THEN <<Tail(Line(k))>> ELSE <<>>)
             \o OldSideFrom(k + 1)

IsOldSideChange(c) == c.type \in {"delete", "normal"}

Contents(changes) == [j \in 1..Len(changes) |-> changes[j].content]

\* C13: for such an input the contents of the delete and normal changes of
\* the one hunk, in order, are the old-side lines of the body.
C13_OldSideReconstructed ==
    (pc = "done" /\ SingleHunkBody) =>
        /\ Len(files) = 1
        /\ Len(files[1].hunks) = 1
        /\ Contents(SelectSeq(files[1].hunks[1].changes, IsOldSideChange))
              = OldSideFrom(2)

\* a body with a delete, an add, a normal line and a '\' line, the old side
\* having two different lines
C13_Witness ==
    /\ pc = "done"
    /\ SingleHunkBody
    /\ Len(OldSideFrom(2)) = 2
    /\ OldSideFrom(2)[1] # OldSideFrom(2)[2]
    /\ \E k \in 2..(NumLines - 1) : Line(k)[1] = "+"
    /\ \E k \in 2..(NumLines - 1) : Line(k)[1] = "\\"

----------------------------------------------------------------------------
(* The changes before and after computeWordDiffs: what C14 to C20 speak of *)

HasWordDiff(c) == "wordDiff" \in DOMAIN c

\* every hunk of the parsed files, by file and hunk number
ParsedHunks ==
    UNION { { <<k, m>> : m \in 1..Len(files[k].hunks) } : k \in 1..Len(files) }

Before(fh) == files[fh[1]].hunks[fh[2]].changes
After(fh) == memo.files[fh[1]].hunks[fh[2]].changes

\* the first and the last index of the longest run of changes of one kind
\* around index j
RunFirst(in, j) ==
    Min({ s \in 1..j : \A x \in s..j : in[x].type = in[j].type })
RunLast(in, j) ==
    Max({ e \in j..Len(in) : \A x \in j..e : in[x].type = in[j].type })

\* the replacement block of the change at j: the index of its first delete,
\* the number d of its deletes, the index of its first add and the number a
\* of its adds (d = 0 for adds that follow no delete), and the place p of
\* the change in its own run; no block for other kinds
BlockAt(in, j) ==
    IF in[j].type = "delete"
    THEN LET first == RunFirst(in, j)
             last == RunLast(in, j)
         IN  [firstDelete |-> first,
              d |-> last - first + 1,
              firstAdd |-> last + 1,
              a |-> IF last < Len(in) /\ in[last + 1].type = "add"
                    THEN RunLast(in, last + 1) - last ELSE 0,
              p |-> j - first + 1]
    ELSE IF in[j].type = "add"
    THEN LET first == RunFirst(in, j)
             last == RunLast(in, j)
             follows == first > 1 /\ in[first - 1].type = "delete"
         IN  [firstDelete |-> IF follows THEN RunFirst(in, first - 1) ELSE first,
              d |-> IF follows THEN first - RunFirst(in, first - 1) ELSE 0,
              firstAdd |-> first,
              a |-> last - first + 1,
              p |-> j - first + 1]
    ELSE [firstDelete |-> j, d |-> 0, firstAdd |-> j, a |-> 0, p |-> 0]

Eligible(block) ==
    block.d >= 1 /\ block.a >= 1 /\ block.d <= 5 /\ block.a <= 5

WordDiffed == pc = "rendered" /\ wordDiffEnabled

----------------------------------------------------------------------------
(* C14 *)

\* C14: after computeWordDiffs a change carries no wordDiff when it is not
\* part of a delete-then-add block, or when the delete run or the add run of
\* its block is empty or longer than 5.
C14_NoWordDiffOutsideEligibleBlocks ==
    WordDiffed =>
        \A fh \in ParsedHunks :
            \A j \in 1..Len(Before(fh)) :
                ~Eligible(BlockAt(Before(fh), j)) => ~HasWordDiff(After(fh)[j])

\* six deletes followed by one add
C14_Witness ==
    /\ WordDiffed
    /\ \E fh \in ParsedHunks :
         /\ Len(Before(fh)) = 7
         /\ BlockAt(Before(fh), 7).d = 6
         /\ BlockAt(Before(fh), 7).a = 1
         /\ Len(After(fh)) = 7

----------------------------------------------------------------------------
(* C15 *)

\* C15: in an eligible block with d deletes and a adds exactly the first
\* min(d, a) deletes and the first min(d, a) adds carry a wordDiff, and the
\* wordDiff of the p-th delete and of the p-th add is the line diff of the
\* p-th delete's content against the p-th add's content.
C15_PairsByPosition ==
    WordDiffed =>
        \A fh \in ParsedHunks :
            \A j \in 1..Len(Before(fh)) :
                LET in == Before(fh)
                    block == BlockAt(in, j)
                IN  Eligible(block) =>
                      /\ HasWordDiff(After(fh)[j])
                           <=> (block.p <= block.d /\ block.p <= block.a)
                      /\ HasWordDiff(After(fh)[j]) =>
                           After(fh)[j].wordDiff =
                               computeLineDiff(
                                   in[block.firstDelete + block.p - 1].content,
                                   in[block.firstAdd + block.p - 1].content,
                                   in[j].type)

\* a block of two deletes and three adds: the third add carries no wordDiff,
\* and the two deletes carry different ones
C15_Witness ==
    /\ WordDiffed
    /\ \E fh \in ParsedHunks :
         /\ Len(Before(fh)) = 5
         /\ BlockAt(Before(fh), 5).d = 2
         /\ BlockAt(Before(fh), 5).a = 3
         /\ Len(After(fh)) = 5
         /\ HasWordDiff(After(fh)[1])
         /\ HasWordDiff(After(fh)[2])
         /\ After(fh)[1].wordDiff # After(fh)[2].wordDiff
         /\ HasWordDiff(After(fh)[4])
         /\ ~HasWordDiff(After(fh)[5])

----------------------------------------------------------------------------
(* C16 *)

WithoutWordDiff(c) == [field \in DOMAIN c \ {"wordDiff"} |-> c[field]]

\* the files shown differ from the parsed files in nothing but wordDiff
SameButWordDiff ==
    /\ Len(memo.files) = Len(files)
    /\ \A k \in 1..Len(files) :
         /\ Len(memo.files[k].hunks) = Len(files[k].hunks)
         /\ [memo.files[k] EXCEPT !.hunks = files[k].hunks] = files[k]
         /\ \A m \in 1..Len(files[k].hunks) :
              LET in == files[k].hunks[m]
                  out == memo.files[k].hunks[m]
              IN  /\ [out EXCEPT !.changes = in.changes] = in
                  /\ Len(out.changes) = Len(in.changes)
                  /\ \A j \in 1..Len(in.changes) :
                       WithoutWordDiff(out.changes[j]) = in.changes[j]

\* C16: the files computeWordDiffs returns have the changes of the parsed
\* files in the same number and order with the same kind, content and line
\* numbers, and the same file and hunk fields; and no step changes the
\* parsed files.
C16_OnlyWordDiffAdded ==
    /\ [](WordDiffed => SameButWordDiff)
    /\ [][files' = files]_vars

\* two files, a hunk of the first with a wordDiff
C16_Witness ==
    /\ WordDiffed
    /\ Len(files) = 2
    /\ Len(memo.files) = 2
    /\ \E m \in 1..Len(memo.files[1].hunks) :
         \E j \in 1..Len(memo.files[1].hunks[m].changes) :
             HasWordDiff(memo.files[1].hunks[m].changes[j])

----------------------------------------------------------------------------
(* C17 *)

Values(wordDiff) == [k \in 1..Len(wordDiff) |-> wordDiff[k].value]

IsNormalWord(w) == w.type = "normal"

Normals(wordDiff) == Values(SelectSeq(wordDiff, IsNormalWord))

\* the elements of s at the indices of I, in order
RECURSIVE Picked(_, _, _)
Picked(s, I, k) ==
    IF k > Len(s) THEN <<>>
    ELSE (IF k \in I THEN <<s[k]>> ELSE <<>>) \o Picked(s, I, k + 1)

\* s is a subsequence of t from index k of t on
RECURSIVE IsSubsequence(_, _, _)
IsSubsequence(s, t, k) ==
    IF s = <<>> THEN TRUE
    ELSE IF k > Len(t) THEN FALSE
    ELSE IF t[k] = s[1] THEN IsSubsequence(Tail(s), t, k + 1)
    ELSE IsSubsequence(s, t, k + 1)

\* the length of the longest common subsequences of s and t
LongestCommon(s, t) ==
    Max({ Cardinality(I) : I \in { J \in SUBSET (1..Len(s)) :
                                     IsSubsequence(Picked(s, J, 1), t, 1) } })

\* the indices of the deletes of the parsed hunk fh that were paired
PairedDeletes(fh) ==
    { j \in 1..Len(Before(fh)) :
        /\ Before(fh)[j].type = "delete"
        /\ Eligible(BlockAt(Before(fh), j))
        /\ BlockAt(Before(fh), j).p <= BlockAt(Before(fh), j).a }

\* the index of the add paired with the delete at j
PartnerOf(fh, j) ==
    BlockAt(Before(fh), j).firstAdd + BlockAt(Before(fh), j).p - 1

\* C17: for a paired delete and add, the word changes of the delete are the
\* tokens of its line, each normal or delete, those of the add are the
\* tokens of its line, each normal or add, the normal tokens are the same
\* sequence on both sides, and no common subsequence of the two token
\* sequences is longer.
C17_NormalTokensAreLCS ==
    WordDiffed =>
        \A fh \in ParsedHunks :
            \A j \in PairedDeletes(fh) :
                LET q == PartnerOf(fh, j)
                    oldWords == tokenize(Before(fh)[j].content)
                    newWords == tokenize(Before(fh)[q].content)
                    forDelete == After(fh)[j].wordDiff
                    forAdd == After(fh)[q].wordDiff
                IN  /\ Values(forDelete) = oldWords
                    /\ Values(forAdd) = newWords
                    /\ \A k \in 1..Len(forDelete) :
                         forDelete[k].type \in {"normal", "delete"}
                    /\ \A k \in 1..Len(forAdd) :
                         forAdd[k].type \in {"normal", "add"}
                    /\ Normals(forDelete) = Normals(forAdd)
                    /\ Len(Normals(forDelete)) = LongestCommon(oldWords, newWords)

\* a pair whose lines share two tokens or more, not in the same places, with
\* a delete token on one side and an add token on the other
C17_Witness ==
    /\ WordDiffed
    /\ \E fh \in ParsedHunks :
         \E j \in PairedDeletes(fh) :
             LET forDelete == After(fh)[j].wordDiff
                 forAdd == After(fh)[PartnerOf(fh, j)].wordDiff
             IN  /\ Len(Normals(forDelete)) >= 2
                 /\ \E k \in 1..Len(forDelete) : forDelete[k].type = "delete"
                 /\ \E k \in 1..Len(forAdd) : forAdd[k].type = "add"
                 /\ forDelete[1].type = "delete"
                 /\ forAdd[1].type = "normal"

----------------------------------------------------------------------------
(* C18 *)

RECURSIVE Concatenated(_)
Concatenated(tokens) ==
    IF tokens = <<>> THEN <<>> ELSE Head(tokens) \o Concatenated(Tail(tokens))

\* tokens is the partition of line into its longest runs of word characters
\* and of other characters
IsRunPartition(tokens, line) ==
    /\ Concatenated(tokens) = line
    /\ \A k \in 1..Len(tokens) :
         /\ tokens[k] # <<>>
         /\ \A x \in 1..Len(tokens[k]) :
              isWordChar(tokens[k][x]) = isWordChar(tokens[k][1])
    /\ \A k \in 1..(Len(tokens) - 1) :
         isWordChar(tokens[k][1]) # isWordChar(tokens[k + 1][1])
    /\ line = <<>> => tokens = <<>>

\* C18: tokenize returns, for every line the word diff is computed of, the
\* partition of the line into its longest runs of word characters and of
\* other characters; the empty line gives no token.
C18_TokensAreMaximalRuns ==
    WordDiffed =>
        \A fh \in ParsedHunks :
            \A j \in 1..Len(Before(fh)) :
                IsRunPartition(tokenize(Before(fh)[j].content),
                               Before(fh)[j].content)

\* a paired line of three tokens, the middle one two different characters
\* that are not word characters
C18_Witness ==
    /\ WordDiffed
    /\ \E fh \in ParsedHunks :
         \E j \in PairedDeletes(fh) :
             LET tokens == tokenize(Before(fh)[j].content)
             IN  /\ Values(After(fh)[j].wordDiff) = tokens
                 /\ Len(tokens) = 3
                 /\ Len(tokens[2]) = 2
                 /\ tokens[2][1] # tokens[2][2]
                 /\ ~isWordChar(tokens[2][1])

----------------------------------------------------------------------------
(* C19 *)

\* a line of the form "diff --git a/<oldPath> b/<newPath>", both paths
\* non-empty
IsBoundaryText(line) ==
    \E a \in 1..Len(line), b \in 1..Len(line) :
        /\ Len(line) = Len(DiffGitA) + a + Len(SpaceB) + b
        /\ SubSeq(line, 1, Len(DiffGitA)) = DiffGitA
        /\ SubSeq(line, Len(DiffGitA) + a + 1, Len(DiffGitA) + a + Len(SpaceB))
             = SpaceB

BoundaryTextNames == { n \in DOMAIN LinePool : IsBoundaryText(LinePool[n]) }

NoBoundaryText == \A k \in 1..NumLines : lines[k] \notin BoundaryTextNames

\* C19: when no line of the input has the boundary form, parseGitDiff never
\* enters parseFile and returns the empty sequence.
C19_NoBoundaryNoFiles ==
    NoBoundaryText =>
        /\ pc \in {"parseGitDiff", "done"}
        /\ files = <<>>

\* returned from an input without a boundary that has a "diff --git" line
\* and a hunk header followed by a change line
C19_Witness ==
    /\ pc = "done"
    /\ NoBoundaryText
    /\ \E k \in 0..(NumLines - 1) : IsDiffGit(k)
    /\ \E k \in 0..(NumLines - 2) :
         IsHeader(k) /\ Line(k + 1) # <<>> /\ Line(k + 1)[1] = "+"

----------------------------------------------------------------------------
(* C20 *)

\* the changes of kind type over every hunk of every file of fs, each by
\* its file, hunk and place
ChangesOfKind(fs, type) ==
    UNION { UNION { { <<k, m, j>> : j \in { x \in 1..Len(fs[k].hunks[m].changes) :
                                              fs[k].hunks[m].changes[x].type = type } }
                    : m \in 1..Len(fs[k].hunks) }
            : k \in 1..Len(fs) }

Counted(fs) ==
    [additions |-> Cardinality(ChangesOfKind(fs, "add")),
     deletions |-> Cardinality(ChangesOfKind(fs, "delete")),
     files     |-> Len(fs)]

\* C20: the stats DiffCanvas shows are the number of add changes, the number
\* of delete changes and the number of files of the parsed files, whether or
\* not computeWordDiffs ran in between; getDiffStats gives the same for the
\* parsed files and for the files returned by computeWordDiffs.
C20_StatsCountChanges ==
    pc = "rendered" =>
        /\ memo.stats = Counted(files)
        /\ getDiffStats(files) = getDiffStats(memo.files)

\* two files after computeWordDiffs, with more add than delete changes, a
\* normal change, a change of unknown kind and a wordDiff
C20_Witness ==
    /\ WordDiffed
    /\ memo.files # files
    /\ memo.stats.files = 2
    /\ memo.stats.deletions >= 1
    /\ memo.stats.additions > memo.stats.deletions
    /\ ChangesOfKind(files, "normal") # {}
    /\ ChangesOfKind(files, Undefined) # {}

----------------------------------------------------------------------------
(* C26 *)

\* every change of the shown files that carries a wordDiff, by file, hunk
\* and place
WithWordDiff ==
    UNION { { <<fh[1], fh[2], j>> :
                j \in { x \in 1..Len(After(fh)) : HasWordDiff(After(fh)[x]) } }
            : fh \in ParsedHunks }

ChangeAt(fhj) == memo.files[fhj[1]].hunks[fhj[2]].changes[fhj[3]]

\* C26: the values of the word changes of a change, put together in order,
\* are the content of the change; the word changes of a delete are delete
\* or normal, those of an add are add or normal.
C26_WordDiffSpellsContent ==
    WordDiffed =>
        \A fhj \in WithWordDiff :
            LET c == ChangeAt(fhj) IN
            /\ Concatenated(Values(c.wordDiff)) = c.content
            /\ c.type \in {"delete", "add"}
            /\ \A k \in 1..Len(c.wordDiff) :
                 c.wordDiff[k].type \in {"normal", c.type}

\* a delete with a wordDiff in which one value occurs twice, once as a
\* normal and once as a delete word change
C26_Witness ==
    /\ WordDiffed
    /\ \E fhj \in WithWordDiff :
         LET c == ChangeAt(fhj) IN
         /\ c.type = "delete"
         /\ \E k \in 1..Len(c.wordDiff), l \in 1..Len(c.wordDiff) :
              /\ c.wordDiff[k].value = c.wordDiff[l].value
              /\ c.wordDiff[k].type = "normal"
              /\ c.wordDiff[l].type = "delete"

----------------------------------------------------------------------------
(* C25 *)

\* the line index of the loop the parser is in
Index ==
    CASE pc = "parseGitDiff" -> i
      [] pc = "metadata"     -> pf.i
      [] pc = "hunks"        -> pf.i
      [] pc = "parseHunk"    -> ph.i
      [] OTHER               -> i

InLoop == pc \in {"parseGitDiff", "metadata", "hunks", "parseHunk"}

\* a step of the parser keeps the index within the lines; a step that stays
\* in its loop is an iteration and moves the index up; parseHunk hands back
\* an index above the header it was called at, and parseFile an index above
\* its "diff --git" line, so the iteration of the calling loop moves up too
IndexMovesUp ==
    /\ Index' <= NumLines
    /\ (InLoop /\ pc' = pc) => Index' > Index
    /\ (pc = "parseHunk" /\ pc' = "hunks") =>
         pf'.i > ph.startIndex /\ ph.startIndex = pf.i
    /\ (pc \in {"metadata", "hunks"} /\ pc' = "parseGitDiff") =>
         i' > pf.startIndex /\ pf.startIndex = i

\* how far the loop the parser is in is from handing over to the loop that
\* called it
Rank ==
    CASE pc = "parseHunk"    -> 4
      [] pc = "metadata"     -> 4
      [] pc = "hunks"        -> 3
      [] pc = "parseGitDiff" -> 2
      [] OTHER               -> 1

\* the lines left, and within one line the returns left
Variant == (NumLines - Index) * 5 + Rank

\* C25: every iteration of the three loops moves the line index up, the
\* index returned by parseHunk and by parseFile is above the index they
\* started at, and no index passes the number of lines; parseGitDiff has no
\* endless run: every step brings a positive number down.
C25_ParserTerminates ==
    /\ [][IndexMovesUp /\ Variant' < Variant]_vars
    /\ [](Variant >= 1)

\* parseGitDiff has returned after a parseFile call that made a parseHunk
\* call that passed two lines or more
C25_Witness ==
    /\ pc = "done"
    /\ i = NumLines
    /\ \E fh \in ReturnedHunks : Len(HunkAt(fh).changes) >= 2

----------------------------------------------------------------------------
(* The visible lines of the canvas: what the claims speak of *)

\* the places of the visible list that hold a line of the given type
Shown(type) == {k \in 1..Len(virtualLines) : virtualLines[k].type = type}

\* every change of the files on show, as <<file, hunk, change>> counted from 0
AllChanges ==
    UNION {UNION {{<<f - 1, h - 1, c - 1>> : c \in 1..Len(files[f].hunks[h].changes)}
                  : h \in 1..Len(files[f].hunks)}
           : f \in 1..Len(files)}

\* the changes the visible list shows
ShownChanges ==
    {<<virtualLines[k].fileIndex, virtualLines[k].hunkIndex,
       virtualLines[k].changeIndex>> : k \in Shown("change")}

\* C21: before any key is pressed, expandedByDefault true shows every change
\* of every hunk, and expandedByDefault false shows no change line at all.
C21_ExpansionFollowsConfig ==
    (pc = "DiffCanvas" /\ key = "none") =>
        IF liveConfig.expandedByDefault
          THEN ShownChanges = AllChanges
          ELSE Shown("change") = {}

\* the lines of the given type strictly after (direction 1) or strictly
\* before (direction -1) the cursor, counted from 0
HeadersPast(type, direction) ==
    {k - 1 : k \in {n \in Shown(type) : (n - 1 - cursorLine) * direction > 0}}

\* the nearest of them, the cursor's own line when there is none
Nearest(type, direction) ==
    LET past == HeadersPast(type, direction)
    IN  IF past = {} THEN cursorLine
        ELSE CHOOSE t \in past :
                \A u \in past : (u - t) * direction >= 0

\* C22: 'n' and 'p' move the cursor to the nearest hunk header strictly after
\* and strictly before it, ']' and '[' to the nearest file header; with no
\* such line in that direction the cursor stays.
C22_JumpsToNearestHeader ==
    [][pc = "DiffCanvas" =>
         /\ key' = "n" => cursorLine' = Nearest("hunk-header", 1)
         /\ key' = "p" => cursorLine' = Nearest("hunk-header", -1)
         /\ key' = "]" => cursorLine' = Nearest("file-header", 1)
         /\ key' = "[" => cursorLine' = Nearest("file-header", -1)]_vars

\* what is collapsed: <<file>> for a file, <<file, hunk>> for a hunk
CollapseState(collapsedF, collapsedH) ==
    {<<f>> : f \in collapsedF}
    \cup UNION {{<<f, h>> : h \in collapsedH[f]} : f \in DOMAIN collapsedH}

\* S with the one element x put in when it is out, taken out when it is in
Flipped(S, x) == IF x \in S THEN S \ {x} ELSE S \cup {x}

\* the lines a header line stands over: the hunk headers and changes of a
\* file, the changes of a hunk
Under(header, l) ==
    IF header.type = "file-header"
      THEN l.type # "file-header" /\ l.fileIndex = header.fileIndex
      ELSE /\ l.type = "change"
           /\ l.fileIndex = header.fileIndex
           /\ l.hunkIndex = header.hunkIndex

\* the name of a header line in CollapseState
NameOf(header) ==
    IF header.type = "file-header" THEN <<header.fileIndex>>
    ELSE <<header.fileIndex, header.hunkIndex>>

\* the visible list once Enter is pressed again on the same header
AfterSecondEnter(header, collapsedF, collapsedH) ==
    IF header.type = "file-header"
      THEN fileLines(files, 0, Flipped(collapsedF, header.fileIndex), collapsedH)
      ELSE fileLines(files, 0, collapsedF,
                     [f \in DOMAIN collapsedH |->
                        IF f = header.fileIndex
                          THEN Flipped(collapsedH[f], header.hunkIndex)
                          ELSE collapsedH[f]])

\* C23: Enter on a file header or a hunk header toggles that file or hunk
\* only: collapsing takes exactly the lines under the header out of the
\* visible list and leaves the header under the cursor, expanding puts lines
\* under the header back, a second Enter gives the list of before the first;
\* Enter on a change line changes nothing.
C23_EnterTogglesOnlyItsHeader ==
    [][(pc = "DiffCanvas" /\ key' = "return") =>
         /\ cursorLine' = cursorLine
         /\ files' = files
         /\ IF onLine /\ currentLine.type # "change"
              THEN LET header == currentLine
                       name == NameOf(header)
                       before == CollapseState(collapsedFiles, collapsedHunks)
                       Kept(l) == ~Under(header, l)
                   IN  /\ CollapseState(collapsedFiles', collapsedHunks')
                            = Flipped(before, name)
                       /\ IF name \in before
                            THEN SelectSeq(virtualLines', Kept) = virtualLines
                            ELSE virtualLines' = SelectSeq(virtualLines, Kept)
                       /\ virtualLines'[cursorLine + 1] = header
                       /\ AfterSecondEnter(header, collapsedFiles', collapsedHunks')
                            = virtualLines
              ELSE /\ UNCHANGED <<collapsedFiles, collapsedHunks>>
                   /\ virtualLines' = virtualLines]_vars

\* Enter has collapsed a file, and has collapsed a hunk and expanded it again
C23_Witness ==
    /\ pc = "DiffCanvas"
    /\ key = "return"
    /\ collapsedFiles # {}
    /\ \E f \in DOMAIN collapsedHunks : collapsedHunks[f] = {}
    /\ onLine
    /\ currentLine.type # "change"

QuitKeys == {"escape", "q"}

\* C24: in every state of the running canvas 'q' and Escape can be pressed,
\* and the press sends {dismissed: true} and then exits: the result goes out
\* first, the exit is the very next step, and no result is sent twice; no
\* other key sends a result or exits.
C24_QuitSendsOnceThenExits ==
    /\ [][pc = "DiffCanvas" =>
            /\ (running /\ key' \in QuitKeys) =>
                  /\ sent' = <<[dismissed |-> TRUE]>>
                  /\ ~exited'
            /\ (sent # <<>> /\ ~exited) => (exited' /\ sent' = sent)
            /\ key' \in Keys \ QuitKeys => UNCHANGED <<sent, exited>>
            /\ sent' # sent => (running /\ key' \in QuitKeys)]_vars
    /\ [](pc = "DiffCanvas" =>
            /\ Len(sent) <= 1
            /\ running => (key \notin QuitKeys /\ ENABLED useInputQuit)
            /\ (sent # <<>> /\ ~exited) => ENABLED useInputExit
            /\ (exited /\ key \in QuitKeys) => sent = <<[dismissed |-> TRUE]>>)

\* Escape has sent its result and the canvas has exited, after files were
\* collapsed and the cursor moved
C24_Witness ==
    /\ pc = "DiffCanvas"
    /\ key = "escape"
    /\ exited
    /\ sent = <<[dismissed |-> TRUE]>>
    /\ collapsedFiles # {}
    /\ cursorLine > 0

\* C27: the cursor is never negative, and on a visible list that is not
\* empty it is on a line of the list.
C27_CursorOnALine ==
    pc = "DiffCanvas" =>
        /\ cursorLine >= 0
        /\ Len(virtualLines) > 0 => cursorLine < Len(virtualLines)

\* C28: after every key press the cursor line is inside the viewport.
C28_CursorInViewport ==
    (pc = "DiffCanvas" /\ key \in Keys) =>
        /\ scrollOffset <= cursorLine
        /\ cursorLine < scrollOffset + viewportHeight

====
